---- MODULE Spec2Model ----
(***************************************************************************)
(* A model of the security-framework mapping engine                        *)
(* (src/mappings/core/engine.py, src/mappings/core/models.py).             *)
(*                                                                         *)
(* State: the engine's framework registry and its global mapping list.     *)
(* Python dicts are modelled as sequences of [k, v] entries, so that       *)
(* insertion order and overwrite-in-place are what they are in Python.     *)
(* Floats: a confidence is an integer number of tenths (10 stands for      *)
(* 1.0); a coverage percentage is an exact fraction [num, den] in lowest   *)
(* terms.  Fields that no modelled operation reads are left out: notes     *)
(* and last_updated of a ControlMapping, version and description of a      *)
(* framework, the domains, and the requirements, guidance, control type    *)
(* and tags of a control.                                                  *)
(***************************************************************************)
EXTENDS Integers, Sequences, FiniteSets, TLC

VARIABLES frameworks, mappings, ret

vars == <<frameworks, mappings, ret>>

(***************************************************************************)
(* Bounds of the model.                                                    *)
(***************************************************************************)
MaxMappings == 2

(***************************************************************************)
(* Python dict: insertion-ordered, a write to a present key keeps its      *)
(* position.                                                               *)
(***************************************************************************)
DictKeys(d) == [i \in DOMAIN d |-> d[i].k]

DictValues(d) == [i \in DOMAIN d |-> d[i].v]

DictHas(d, key) == \E i \in DOMAIN d : d[i].k = key

DictGet(d, key) == d[CHOOSE i \in DOMAIN d : d[i].k = key].v

DictPut(d, key, val) ==
    IF DictHas(d, key)
    THEN [i \in DOMAIN d |-> IF d[i].k = key THEN [k |-> key, v |-> val] ELSE d[i]]
    ELSE Append(d, [k |-> key, v |-> val])

(***************************************************************************)
(* models.py: enumerations and field constraints.                          *)
(***************************************************************************)
MappingType == {"equivalent", "partial", "related", "parent", "child"}

RiskLevel == {"low", "medium", "high", "critical"}

\* Field(ge=0.0, le=1.0), in tenths
ConfidenceGe == 0

ConfidenceLe == 10

\* Mutant: the upper limit of the confidence field is not enforced.
ControlMappingValid_NoUpper(confidence) == confidence >= ConfidenceGe

\* ControlMapping(**fields): pydantic validation of the confidence field
ControlMappingValid(confidence) == confidence >= ConfidenceGe /\ confidence <= ConfidenceLe

\* ControlMapping(...): the validated object, verified defaulting to False
ControlMapping(sf, sc, tf, tc, mapping_type, confidence) ==
    [source_framework |-> sf, source_control |-> sc,
     target_framework |-> tf, target_control |-> tc,
     mapping_type |-> mapping_type, confidence |-> confidence,
     verified |-> FALSE]

\* Mutant: verify toggles the flag.
ControlMapping_verify_Toggle(mapping) == [mapping EXCEPT !.verified = ~@]

\* ControlMapping.verify; the last_updated time stamp is left out
ControlMapping_verify(mapping) == [mapping EXCEPT !.verified = TRUE]

\* SecurityControl(...): mappings defaults to an empty dict and domain_id to None,
\* which is <<>> here, a domain id d being <<d>>
SecurityControl(id, title, description, framework_id, risk_level) ==
    [id |-> id, title |-> title, description |-> description,
     framework_id |-> framework_id, risk_level |-> risk_level,
     domain_id |-> <<>>, mappings |-> <<>>]

\* SecurityControl(..., domain_id=domain_id)
SecurityControl_in_domain(ctrl, domain_id) == [ctrl EXCEPT !.domain_id = <<domain_id>>]

\* SecurityDomain(...): controls defaults to an empty dict
SecurityDomain(id, name, framework_id) ==
    [id |-> id, name |-> name, framework_id |-> framework_id, controls |-> <<>>]

\* SecurityDomain.add_control: the domain holds the control object it is given, not
\* a copy
SecurityDomain_add_control(domain, control) ==
    [domain EXCEPT !.controls = DictPut(@, control.id, control)]

\* Mutant: the entry replaces the list kept under the framework id.
SecurityControl_add_mapping_Reset(ctrl, framework_id, control_id, mapping_type, confidence) ==
    [ctrl EXCEPT !.mappings = DictPut(@, framework_id,
        <<[control_id |-> control_id, mapping_type |-> mapping_type,
           confidence |-> confidence]>>)]

\* SecurityControl.add_mapping
SecurityControl_add_mapping(ctrl, framework_id, control_id, mapping_type, confidence) ==
    LET old == IF DictHas(ctrl.mappings, framework_id)
               THEN DictGet(ctrl.mappings, framework_id) ELSE <<>>
        entry == [control_id |-> control_id, mapping_type |-> mapping_type,
                  confidence |-> confidence]
    IN  [ctrl EXCEPT !.mappings = DictPut(@, framework_id, Append(old, entry))]

\* The truth value Python gives an Optional[str]: None, which is <<>>, and the empty
\* string are false
Truthy(optional_str) == optional_str # <<>> /\ optional_str[1] # ""

\* SecurityControl.get_mappings(framework_id=None): the list kept under a framework id,
\* [] for an id without entries; for None or the empty string, the whole index dict
get_mappings(ctrl, framework_id) ==
    IF Truthy(framework_id)
    THEN IF DictHas(ctrl.mappings, framework_id[1])
         THEN DictGet(ctrl.mappings, framework_id[1]) ELSE <<>>
    ELSE ctrl.mappings

\* SecurityFramework(...): domains and controls default to empty dicts.  A dict
\* holds objects, and one control object can be held by fw.controls and by a domain:
\* shared is the set of the pairs <<domain id, control id>> whose entry in the
\* domain is the very object fw.controls holds under the control id.  Every other
\* entry of a domain is an object of its own, whatever its value.  The field is
\* object identity, which no field of the class holds; export_framework leaves it out.
SecurityFramework(id, name) ==
    [id |-> id, name |-> name, domains |-> <<>>, controls |-> <<>>, shared |-> {}]

\* SecurityFramework.add_domain: the domain given is a new object with controls of
\* its own, so no entry of the domain now under the id is shared
SecurityFramework_add_domain(fw, domain) ==
    [fw EXCEPT !.domains = DictPut(@, domain.id, domain),
               !.shared = {p \in @ : p[1] # domain.id}]

\* SecurityFramework.add_control: the control, a new object, is stored, and stored
\* in its domain as well when domain_id is true (neither None nor "") and names a
\* domain the framework has.  The object fw.controls held under the id is replaced
\* there only: a domain that holds it keeps it, as an object of its own from now on.
SecurityFramework_add_control(fw, control) ==
    LET stored == [fw EXCEPT !.controls = DictPut(@, control.id, control),
                             !.shared = {p \in @ : p[2] # control.id}]
    IN  IF Truthy(control.domain_id) /\ DictHas(fw.domains, control.domain_id[1])
        THEN [stored EXCEPT !.domains =
                 DictPut(@, control.domain_id[1],
                     SecurityDomain_add_control(DictGet(fw.domains, control.domain_id[1]),
                                                control)),
                            !.shared = @ \cup {<<control.domain_id[1], control.id>>}]
        ELSE stored

\* get_domain(domain_id).add_control(control), SecurityDomain.add_control called on a
\* domain of the framework with a new control object: the domain stores it, fw.controls
\* does not, and the entry is not the object of fw.controls even when the values are equal
SecurityFramework_domain_add_control(fw, domain_id, control) ==
    [fw EXCEPT !.domains =
                   DictPut(@, domain_id,
                       SecurityDomain_add_control(DictGet(fw.domains, domain_id), control)),
               !.shared = @ \ {<<domain_id, control.id>>}]

\* The domains that hold, under the control id, the object of fw.controls
SharedWithDomain(fw, domain_id, control_id) == <<domain_id, control_id>> \in fw.shared

\* A method that changes the control object old of fw.controls into new: the change
\* is seen wherever the object is held, and in no other object of the same value
SecurityFramework_control_changed(fw, old, new) ==
    [fw EXCEPT !.controls = DictPut(@, old.id, new),
               !.domains = [k \in DOMAIN @ |->
                   IF SharedWithDomain(fw, @[k].k, old.id)
                   THEN [@[k] EXCEPT !.v = SecurityDomain_add_control(@, new)]
                   ELSE @[k]]]

\* Mutant: the controls are collected from the domains of the framework.
get_all_controls_ThroughDomains(fw) ==
    LET collected[k \in 0..Len(fw.domains)] ==
            IF k = 0 THEN <<>>
            ELSE collected[k - 1] \o DictValues(fw.domains[k].v.controls)
    IN  collected[Len(fw.domains)]

\* SecurityFramework.get_all_controls
get_all_controls(fw) == DictValues(fw.controls)

\* Mutant: a missing id falls back to the first control of the framework.
get_control_Default(fw, control_id) ==
    IF DictHas(fw.controls, control_id) THEN <<DictGet(fw.controls, control_id)>>
    ELSE IF fw.controls # <<>> THEN <<fw.controls[1].v>> ELSE <<>>

\* SecurityFramework.get_control: dict.get, None as <<>> and a control x as <<x>>
get_control(fw, control_id) ==
    IF DictHas(fw.controls, control_id) THEN <<DictGet(fw.controls, control_id)>> ELSE <<>>

(***************************************************************************)
(* Fixture frameworks, as the factories of src/mappings/frameworks build   *)
(* them: a constructor call, add_domain for every domain, then add_control *)
(* for every control, each control naming one of the domains, so that      *)
(* every control is held by the framework and by its domain.  The          *)
(* factories have 12 to 15 controls in 5 to 8 domains; the fixtures have   *)
(* one or two controls in one or two domains.  Control ids are unique      *)
(* within a framework only: "c1" is a control of both "A" and "B", which   *)
(* the engine allows although no two factories share an id.  FwA0 is a     *)
(* second definition under the id "A", with no domain and no control.  An  *)
(* id whose framework is not registered (yet) is an unregistered id.       *)
(***************************************************************************)
FwA ==
    SecurityFramework_add_control(
        SecurityFramework_add_control(
            SecurityFramework_add_domain(
                SecurityFramework_add_domain(SecurityFramework("A", "Framework A"),
                    SecurityDomain("d1", "Access", "A")),
                SecurityDomain("d2", "Assets", "A")),
            SecurityControl_in_domain(
                SecurityControl("c1", "Access Policy", "access control policy", "A", "high"),
                "d1")),
        SecurityControl_in_domain(
            SecurityControl("c2", "Asset Inventory", "inventory of assets", "A", "low"), "d2"))

FwA0 == SecurityFramework("A", "Framework A, draft")

FwB ==
    SecurityFramework_add_control(
        SecurityFramework_add_domain(SecurityFramework("B", "Framework B"),
            SecurityDomain("d1", "Access", "B")),
        SecurityControl_in_domain(
            SecurityControl("c1", "Access Control", "access control policy", "B", "critical"),
            "d1"))

FwC ==
    SecurityFramework_add_control(
        SecurityFramework_add_control(
            SecurityFramework_add_domain(SecurityFramework("C", "Framework C"),
                SecurityDomain("d3", "Identity", "C")),
            SecurityControl_in_domain(
                SecurityControl("c3", "Access Review", "review of access policy", "C", "high"),
                "d3")),
        SecurityControl_in_domain(
            SecurityControl("c4", "IT", "id of it", "C", "critical"), "d3"))

Catalog == {FwA, FwA0, FwB}

\* The three frameworks the facade seeds the engine with (system.py, lines 22-26)
SeedCatalog == {FwA, FwB, FwC}

FrameworkIds == {"A", "B"}

ControlIds == {"c1", "c2"}

(***************************************************************************)
(* Arguments given to add_mapping.  Endpoints <<sf, sc, tf, tc>>: a        *)
(* mapping between the two frameworks on a control id they share, one in   *)
(* the other direction, one naming a control id ("c2") that "B" does not   *)
(* have, and one inside a single framework.  Whether a side resolves       *)
(* depends on what is registered when the call is made.                    *)
(***************************************************************************)
EndpointInputs == {<<"A", "c1", "B", "c1">>, <<"B", "c1", "A", "c2">>,
                   <<"A", "c2", "B", "c2">>, <<"A", "c1", "A", "c2">>}

\* (mapping_type, confidence in tenths); -1 and 11 are out of range
TypeConfInputs == {<<"equivalent", 10>>, <<"related", 0>>,
                   <<"partial", 0 - 1>>, <<"related", 11>>}

\* The calls of add_mapping: every endpoint with every valid type and confidence, and
\* the first endpoint with the two confidences out of range
AddMappingInputs ==
    {inp \in EndpointInputs \X TypeConfInputs :
        ControlMappingValid(inp[2][2]) \/ inp[1] = <<"A", "c1", "B", "c1">>}

(***************************************************************************)
(* engine.py: MappingEngine                                                *)
(***************************************************************************)
\* Mutant: a framework registered under a taken id is dropped.
register_framework_KeepFirst(fws, framework) ==
    IF DictHas(fws, framework.id) THEN fws ELSE DictPut(fws, framework.id, framework)

\* Mutant: a framework registered again moves to the end of the registry.
register_framework_MoveToEnd(fws, framework) ==
    Append(SelectSeq(fws, LAMBDA e : e.k # framework.id), [k |-> framework.id, v |-> framework])

\* register_framework: self.frameworks[framework.id] = framework
register_framework(fws, framework) == DictPut(fws, framework.id, framework)

\* get_framework: dict.get, None as <<>> and a framework x as <<x>>
get_framework(fws, framework_id) ==
    IF DictHas(fws, framework_id) THEN <<DictGet(fws, framework_id)>> ELSE <<>>

\* get_all_frameworks: list(self.frameworks.values())
get_all_frameworks(fws) == DictValues(fws)

\* get_framework(framework_id) and then get_control(control_id) both return an object
Resolves(fws, framework_id, control_id) ==
    DictHas(fws, framework_id) /\ DictHas(DictGet(fws, framework_id).controls, control_id)

\* Mutant: the target side is updated only inside the branch of a resolved source.
add_mapping_index_Nested(fws, sf, sc, tf, tc, mapping_type, confidence) ==
    IF Resolves(fws, sf, sc)
    THEN LET fw == DictGet(fws, sf)
             ctrl == SecurityControl_add_mapping(
                         DictGet(fw.controls, sc), tf, tc, mapping_type, confidence)
             afterSource == DictPut(fws, sf,
                 SecurityFramework_control_changed(fw, DictGet(fw.controls, sc), ctrl))
         IN  IF Resolves(afterSource, tf, tc)
             THEN LET tfw == DictGet(afterSource, tf)
                      tctrl == SecurityControl_add_mapping(
                                   DictGet(tfw.controls, tc), sf, sc, mapping_type, confidence)
                  IN  DictPut(afterSource, tf,
                      SecurityFramework_control_changed(tfw, DictGet(tfw.controls, tc), tctrl))
             ELSE afterSource
    ELSE fws

\* add_mapping, lines 52-63: the per-control index updates, source side first; the
\* control objects are changed in place, so a domain that holds one shows the change
add_mapping_index(fws, sf, sc, tf, tc, mapping_type, confidence) ==
    LET afterSource ==
            IF Resolves(fws, sf, sc)
            THEN LET fw == DictGet(fws, sf)
                     ctrl == SecurityControl_add_mapping(
                                 DictGet(fw.controls, sc), tf, tc, mapping_type, confidence)
                 IN  DictPut(fws, sf,
                     SecurityFramework_control_changed(fw, DictGet(fw.controls, sc), ctrl))
            ELSE fws
    IN  IF Resolves(afterSource, tf, tc)
        THEN LET fw == DictGet(afterSource, tf)
                 ctrl == SecurityControl_add_mapping(
                             DictGet(fw.controls, tc), sf, sc, mapping_type, confidence)
             IN  DictPut(afterSource, tf,
                 SecurityFramework_control_changed(fw, DictGet(fw.controls, tc), ctrl))
        ELSE afterSource

\* Mutant: only the source endpoint of a mapping is compared.
find_mappings_for_control_SourceOnly(maps, framework_id, control_id) ==
    SelectSeq(maps, LAMBDA m :
        m.source_framework = framework_id /\ m.source_control = control_id)

\* Mutant: the target side compares the control id alone.
find_mappings_for_control_AnyFramework(maps, framework_id, control_id) ==
    SelectSeq(maps, LAMBDA m :
        \/ (m.source_framework = framework_id /\ m.source_control = control_id)
        \/ m.target_control = control_id)

\* find_mappings_for_control
find_mappings_for_control(maps, framework_id, control_id) ==
    SelectSeq(maps, LAMBDA m :
        \/ (m.source_framework = framework_id /\ m.source_control = control_id)
        \/ (m.target_framework = framework_id /\ m.target_control = control_id))

\* Mutant: only the stored direction framework1 -> framework2 is matched.
find_mappings_between_frameworks_OneWay(maps, framework1_id, framework2_id) ==
    SelectSeq(maps, LAMBDA m :
        m.source_framework = framework1_id /\ m.target_framework = framework2_id)

\* find_mappings_between_frameworks
find_mappings_between_frameworks(maps, framework1_id, framework2_id) ==
    SelectSeq(maps, LAMBDA m :
        \/ (m.source_framework = framework1_id /\ m.target_framework = framework2_id)
        \/ (m.source_framework = framework2_id /\ m.target_framework = framework1_id))

\* The elements of a list
Range(seq) == {seq[i] : i \in DOMAIN seq}

RECURSIVE GCD(_, _)
GCD(a, b) == IF b = 0 THEN a ELSE GCD(b, a % b)

\* a float that is a quotient of two integers, kept exact and in lowest terms
Frac(n, d) == [num |-> n \div GCD(n, d), den |-> d \div GCD(n, d)]

\* Mutant: the quotient is not scaled to a percentage.
coverage_percentage_Unscaled(n_mappings, n_source_controls) ==
    IF n_source_controls # 0 THEN Frac(n_mappings, n_source_controls) ELSE Frac(0, 1)

\* Mutant: a source framework without controls counts as fully covered.
coverage_percentage_EmptyFull(n_mappings, n_source_controls) ==
    IF n_source_controls # 0 THEN Frac(n_mappings * 100, n_source_controls) ELSE Frac(100, 1)

\* analyze_gaps, line 116
coverage_percentage(n_mappings, n_source_controls) ==
    IF n_source_controls # 0 THEN Frac(n_mappings * 100, n_source_controls) ELSE Frac(0, 1)

\* Mutant: the roles are not swapped for a mapping stored in the other direction.
mapped_source_controls_NoSwap(maps, source_framework_id) ==
    {m.source_control : m \in Range(maps)}

\* analyze_gaps, lines 95-104: the control ids the mappings cover on the source side
mapped_source_controls(maps, source_framework_id) ==
    {IF m.source_framework = source_framework_id THEN m.source_control ELSE m.target_control :
        m \in Range(maps)}

\* Mutant: the target side is read from target_control whatever the direction stored.
mapped_target_controls_NoSwap(maps, source_framework_id) ==
    {m.target_control : m \in Range(maps)}

\* analyze_gaps, lines 95-104: the control ids the mappings cover on the target side
mapped_target_controls(maps, source_framework_id) ==
    {IF m.source_framework = source_framework_id THEN m.target_control ELSE m.source_control :
        m \in Range(maps)}

\* Mutant: only the verified mappings are counted.
mapped_controls_Verified(between) == Len(SelectSeq(between, LAMBDA m : m.verified))

\* Mutant: identical mappings are counted once.
mapped_controls_Distinct(between) == Cardinality(Range(between))

\* analyze_gaps, line 123: mapped_controls=len(mappings)
mapped_controls(between) == Len(between)

\* analyze_gaps, lines 125-130: a control as the result lists it
GapEntry(control) ==
    [id |-> control.id, title |-> control.title, description |-> control.description,
     risk_level |-> control.risk_level]

\* Mutant: the covered controls are taken from all mappings, not from those between
\* the two frameworks.
analyze_gaps_GlobalCoverage(fws, maps, source_framework_id, target_framework_id) ==
    LET source_controls == get_all_controls(DictGet(fws, source_framework_id))
        target_controls == get_all_controls(DictGet(fws, target_framework_id))
        between == find_mappings_between_frameworks(maps, source_framework_id, target_framework_id)
        mapped_source == mapped_source_controls(maps, source_framework_id)
        mapped_target == mapped_target_controls(maps, source_framework_id)
        unmapped_source == SelectSeq(source_controls, LAMBDA c : c.id \notin mapped_source)
        unmapped_target == SelectSeq(target_controls, LAMBDA c : c.id \notin mapped_target)
        gap_source == [i \in DOMAIN unmapped_source |-> GapEntry(unmapped_source[i])]
        gap_target == [i \in DOMAIN unmapped_target |-> GapEntry(unmapped_target[i])]
    IN  [source_framework |-> source_framework_id,
         target_framework |-> target_framework_id,
         total_source_controls |-> Len(source_controls),
         total_target_controls |-> Len(target_controls),
         mapped_controls |-> mapped_controls(between),
         coverage_percentage |-> coverage_percentage(Len(between), Len(source_controls)),
         unmapped_source_controls |-> gap_source,
         unmapped_target_controls |-> gap_target,
         gaps |-> [source |-> gap_source, target |-> gap_target]]

\* analyze_gaps, lines 91-151, both frameworks being registered
analyze_gaps(fws, maps, source_framework_id, target_framework_id) ==
    LET source_controls == get_all_controls(DictGet(fws, source_framework_id))
        target_controls == get_all_controls(DictGet(fws, target_framework_id))
        between == find_mappings_between_frameworks(maps, source_framework_id, target_framework_id)
        mapped_source == mapped_source_controls(between, source_framework_id)
        mapped_target == mapped_target_controls(between, source_framework_id)
        unmapped_source == SelectSeq(source_controls, LAMBDA c : c.id \notin mapped_source)
        unmapped_target == SelectSeq(target_controls, LAMBDA c : c.id \notin mapped_target)
        gap_source == [i \in DOMAIN unmapped_source |-> GapEntry(unmapped_source[i])]
        gap_target == [i \in DOMAIN unmapped_target |-> GapEntry(unmapped_target[i])]
    IN  [source_framework |-> source_framework_id,
         target_framework |-> target_framework_id,
         total_source_controls |-> Len(source_controls),
         total_target_controls |-> Len(target_controls),
         mapped_controls |-> mapped_controls(between),
         coverage_percentage |-> coverage_percentage(Len(between), Len(source_controls)),
         unmapped_source_controls |-> gap_source,
         unmapped_target_controls |-> gap_target,
         gaps |-> [source |-> gap_source, target |-> gap_target]]

\* Mutant: a framework without controls is taken for a missing one.
analyze_gaps_raises_Falsy(fws, source_framework_id, target_framework_id) ==
    IF ~DictHas(fws, source_framework_id) \/ ~DictHas(fws, target_framework_id)
    THEN TRUE
    ELSE \/ DictGet(fws, source_framework_id).controls = <<>>
         \/ DictGet(fws, target_framework_id).controls = <<>>

\* analyze_gaps, lines 85-89: whether the call raises ValueError("Framework not found")
analyze_gaps_raises(fws, source_framework_id, target_framework_id) ==
    ~DictHas(fws, source_framework_id) \/ ~DictHas(fws, target_framework_id)

(***************************************************************************)
(* generate_compliance_matrix.  The matrix is a dict of rows, a row a dict *)
(* of cells; the generated_at time stamp of ComplianceMatrix is left out.  *)
(***************************************************************************)
(***************************************************************************)
(* export_mappings and import_mappings.  The exported data lists the       *)
(* domains and the controls of a framework (lists of dicts), while the     *)
(* fields of SecurityFramework are dicts keyed by id.  Pydantic rejects a  *)
(* non-empty list of dicts for a dict field; an empty list is turned into  *)
(* an empty dict by pydantic 1 and rejected by pydantic 2.  The version is *)
(* not pinned by the repository: pydantic_v1 tells which one is installed. *)
(***************************************************************************)
\* export_mappings, lines 230-238: the dict exported for one framework
export_framework(fw) ==
    [id |-> fw.id, name |-> fw.name,
     domains |-> DictValues(fw.domains), controls |-> DictValues(fw.controls)]

\* export_mappings, lines 227-242
export_mappings(fws, maps) ==
    [frameworks |-> [k \in DOMAIN fws |-> export_framework(fws[k].v)],
     mappings |-> maps]

\* line 248, SecurityFramework(**fw_data): <<>> when validation fails
SecurityFramework_parse(fw_data, pydantic_v1) ==
    IF fw_data.domains = <<>> /\ fw_data.controls = <<>> /\ pydantic_v1
    THEN <<SecurityFramework(fw_data.id, fw_data.name)>>
    ELSE <<>>

\* lines 247-249: the loop over the frameworks of the data, from entry k on
RECURSIVE import_frameworks(_, _, _, _)
import_frameworks(fws, fw_list, k, pydantic_v1) ==
    IF k > Len(fw_list) THEN [frameworks |-> fws, err |-> "none"]
    ELSE LET framework == SecurityFramework_parse(fw_list[k], pydantic_v1)
         IN  IF framework = <<>>
             THEN [frameworks |-> fws, err |-> "ValidationError"]
             ELSE import_frameworks(register_framework(fws, framework[1]),
                                    fw_list, k + 1, pydantic_v1)

\* lines 252-254: the loop over the mappings of the data, from entry k on
RECURSIVE import_mapping_list(_, _, _)
import_mapping_list(maps, mapping_list, k) ==
    IF k > Len(mapping_list) THEN [mappings |-> maps, err |-> "none"]
    ELSE IF ~ControlMappingValid(mapping_list[k].confidence)
         THEN [mappings |-> maps, err |-> "ValidationError"]
         ELSE import_mapping_list(Append(maps, mapping_list[k]), mapping_list, k + 1)

\* Mutant: the imported mappings replace the list.
import_mappings_Replace(fws, maps, data, pydantic_v1) ==
    LET f == import_frameworks(fws, data.frameworks, 1, pydantic_v1)
        m == import_mapping_list(<<>>, data.mappings, 1)
    IN  IF f.err # "none"
        THEN [frameworks |-> f.frameworks, mappings |-> maps, err |-> f.err]
        ELSE [frameworks |-> f.frameworks, mappings |-> m.mappings, err |-> m.err]

\* import_mappings, lines 244-254: the engine it leaves, and the error it raises
import_mappings(fws, maps, data, pydantic_v1) ==
    LET f == import_frameworks(fws, data.frameworks, 1, pydantic_v1)
        m == import_mapping_list(maps, data.mappings, 1)
    IN  IF f.err # "none"
        THEN [frameworks |-> f.frameworks, mappings |-> maps, err |-> f.err]
        ELSE [frameworks |-> f.frameworks, mappings |-> m.mappings, err |-> m.err]

(***************************************************************************)
(* Text.  A Python str is the sequence of its characters; Chars spells out *)
(* the strings the model uses.  The characters modelled are the printable  *)
(* characters of Latin-1 (U+0020 to U+007E and U+00A1 to U+00FF) that a    *)
(* string of the model can hold, which leaves out U+0060 and U+00AD: the   *)
(* set Alphabet below.  On them str.lower maps a character to one          *)
(* character.  lower_char and is_word_char have no value on any other      *)
(* character, and every text of the model is made of characters of the     *)
(* alphabet.                                                               *)
(***************************************************************************)
Chars(s) ==
    CASE s = "Access Policy" ->
          <<"A", "c", "c", "e", "s", "s", " ", "P", "o", "l", "i", "c", "y">>
      [] s = "access control policy" ->
          <<"a", "c", "c", "e", "s", "s", " ", "c", "o", "n", "t", "r",
            "o", "l", " ", "p", "o", "l", "i", "c", "y">>
      [] s = "Asset Inventory" ->
          <<"A", "s", "s", "e", "t", " ", "I", "n", "v", "e", "n", "t",
            "o", "r", "y">>
      [] s = "inventory of assets" ->
          <<"i", "n", "v", "e", "n", "t", "o", "r", "y", " ", "o", "f",
            " ", "a", "s", "s", "e", "t", "s">>
      [] s = "Access Control" ->
          <<"A", "c", "c", "e", "s", "s", " ", "C", "o", "n", "t", "r",
            "o", "l">>
      [] s = "Access Review" ->
          <<"A", "c", "c", "e", "s", "s", " ", "R", "e", "v", "i", "e", "w">>
      [] s = "review of access policy" ->
          <<"r", "e", "v", "i", "e", "w", " ", "o", "f", " ", "a", "c",
            "c", "e", "s", "s", " ", "p", "o", "l", "i", "c", "y">>
      [] s = "IT" ->
          <<"I", "T">>
      [] s = "id of it" ->
          <<"i", "d", " ", "o", "f", " ", "i", "t">>
      [] s = "" ->
          <<>>
      [] s = "Access Control Policy" ->
          <<"A", "c", "c", "e", "s", "s", " ", "C", "o", "n", "t", "r",
            "o", "l", " ", "P", "o", "l", "i", "c", "y">>
      [] s = "ACCESS-control, policy!" ->
          <<"A", "C", "C", "E", "S", "S", "-", "c", "o", "n", "t", "r",
            "o", "l", ",", " ", "p", "o", "l", "i", "c", "y", "!">>
      [] s = "Access Policy access" ->
          <<"A", "c", "c", "e", "s", "s", " ", "P", "o", "l", "i", "c",
            "y", " ", "a", "c", "c", "e", "s", "s">>
      [] s = "of IT an" ->
          <<"o", "f", " ", "I", "T", " ", "a", "n">>
      [] s = "key_1 id2 a_b" ->
          <<"k", "e", "y", "_", "1", " ", "i", "d", "2", " ", "a", "_", "b">>
      [] s = "Access Controls" ->
          <<"A", "c", "c", "e", "s", "s", " ", "C", "o", "n", "t", "r",
            "o", "l", "s">>
      [] s = "Access Policy access control policy" ->
          <<"A", "c", "c", "e", "s", "s", " ", "P", "o", "l", "i", "c",
            "y", " ", "a", "c", "c", "e", "s", "s", " ", "c", "o", "n",
            "t", "r", "o", "l", " ", "p", "o", "l", "i", "c", "y">>
      [] s = "a1b key_1" ->
          <<"a", "1", "b", " ", "k", "e", "y", "_", "1">>
      [] s = "Contrôle d'ACCÈS" ->
          <<"C", "o", "n", "t", "r", "ô", "l", "e", " ", "d", "'", "A",
            "C", "C", "È", "S">>
      [] s = "contrôle accès ×½" ->
          <<"c", "o", "n", "t", "r", "ô", "l", "e", " ", "a", "c", "c",
            "è", "s", " ", "×", "½">>

\* The characters str.lower changes, and what it changes them into
UpperCase == <<"A", "B", "C", "D", "E", "F", "G", "H", "I", "J", "K", "L", "M",
               "N", "O", "P", "Q", "R", "S", "T", "U", "V", "W", "X", "Y", "Z",
               "À", "Á", "Â", "Ã", "Ä", "Å", "Æ", "Ç", "È", "É", "Ê", "Ë", "Ì",
               "Í", "Î", "Ï", "Ð", "Ñ", "Ò", "Ó", "Ô", "Õ", "Ö", "Ø", "Ù", "Ú",
               "Û", "Ü", "Ý", "Þ">>

LowerCase == <<"a", "b", "c", "d", "e", "f", "g", "h", "i", "j", "k", "l", "m",
               "n", "o", "p", "q", "r", "s", "t", "u", "v", "w", "x", "y", "z",
               "à", "á", "â", "ã", "ä", "å", "æ", "ç", "è", "é", "ê", "ë", "ì",
               "í", "î", "ï", "ð", "ñ", "ò", "ó", "ô", "õ", "ö", "ø", "ù", "ú",
               "û", "ü", "ý", "þ">>

Digits == {"0", "1", "2", "3", "4", "5", "6", "7", "8", "9"}

\* The letters without an upper case of one character and the numeric characters,
\* which \w matches on a str pattern as well
OtherWordChars == {"ª", "²", "³", "µ", "¹", "º", "¼", "½", "¾", "ß", "ÿ"}

\* The lower case of the characters that have one
LowerOf ==
    [ch \in Range(UpperCase) |-> LowerCase[CHOOSE i \in DOMAIN UpperCase : UpperCase[i] = ch]]

\* The letters, digits and numeric characters
AlphaNumeric == Range(UpperCase) \cup Range(LowerCase) \cup Digits \cup OtherWordChars

\* The printable characters \w does not match
Separators == {" ", "!", "\"", "#", "$", "%", "&", "'", "(", ")", "*", "+", ",", "-",
               ".", "/", ":", ";", "<", "=", ">", "?", "@", "[", "\\", "]", "^", "{",
               "|", "}", "~", "¡", "¢", "£", "¤", "¥", "¦", "§", "¨", "©", "«",
               "¬", "®", "¯", "°", "±", "´", "¶", "·", "¸", "»", "¿", "×", "÷"}

\* The characters of the model's texts: the printable characters of Latin-1.  The
\* operators on characters are defined on them and on no other character.
Alphabet == AlphaNumeric \cup {"_"} \cup Separators

\* The characters of the alphabet that str.lower leaves as they are
LowerSame == Alphabet \ DOMAIN LowerOf

\* str.lower, on one character of the alphabet
lower_char(ch) ==
    CASE ch \in DOMAIN LowerOf -> LowerOf[ch]
      [] ch \in LowerSame -> ch

\* str.lower
str_lower(text) == [i \in DOMAIN text |-> lower_char(text[i])]

\* Mutant: the underscore does not belong to a word.
is_word_char_NoUnderscore(ch) == ch \in AlphaNumeric

\* the characters of the alphabet the pattern \w matches: letters and numeric
\* characters, and "_"
is_word_char(ch) ==
    CASE ch \in AlphaNumeric \cup {"_"} -> TRUE
      [] ch \in Separators -> FALSE

\* re.findall(r'\w+', text): a scan from character k on, left to right; word is
\* the run being read, found the words read so far
RECURSIVE findall_words(_, _, _, _)
findall_words(text, k, word, found) ==
    IF k > Len(text)
    THEN IF word = <<>> THEN found ELSE Append(found, word)
    ELSE IF is_word_char(text[k])
         THEN findall_words(text, k + 1, Append(word, text[k]), found)
         ELSE findall_words(text, k + 1, <<>>,
                  IF word = <<>> THEN found ELSE Append(found, word))

\* Mutant: words of two characters are kept.
keep_word_TwoLetters(w) == Len(w) >= 2

\* lines 216-217: the words that are not "very short"
keep_word(w) == Len(w) > 2

\* lines 212-217: the set of the kept words of a text
word_set(text) ==
    {w \in Range(findall_words(str_lower(text), 1, <<>>, <<>>)) : keep_word(w)}

\* Mutant: the words are counted without lower-casing the text.
calculate_text_similarity_CaseSensitive(text1, text2) ==
    LET words1 == {w \in Range(findall_words(text1, 1, <<>>, <<>>)) : keep_word(w)}
        words2 == {w \in Range(findall_words(text2, 1, <<>>, <<>>)) : keep_word(w)}
    IN  IF words1 = {} \/ words2 = {} THEN Frac(0, 1)
        ELSE Frac(Cardinality(words1 \cap words2), Cardinality(words1 \cup words2))

\* MappingEngine._calculate_text_similarity, lines 209-225.  The quotient of two
\* small integers is kept exact; comparing it with a decimal literal as exact
\* numbers gives what the comparison of the two floats gives.
calculate_text_similarity(text1, text2) ==
    LET words1 == word_set(text1)
        words2 == word_set(text2)
    IN  IF words1 = {} \/ words2 = {} THEN Frac(0, 1)
        ELSE Frac(Cardinality(words1 \cap words2), Cardinality(words1 \cup words2))

(***************************************************************************)
(* find_similar_controls.  The threshold is a number of tenths.            *)
(***************************************************************************)
\* lines 193-196: the text a control is compared by
control_text(control) == Chars(control.title) \o <<" ">> \o Chars(control.description)

\* Mutant: every similarity above zero passes, whatever the threshold.
meets_threshold_Positive(similarity, threshold) == similarity.num > 0

\* line 198: similarity >= threshold
meets_threshold(similarity, threshold) ==
    similarity.num * 10 >= threshold * similarity.den

\* lines 199-205
similar_entry(fw_id, control, similarity) ==
    [framework_id |-> fw_id,
     control_id |-> control.id,
     title |-> control.title,
     similarity |-> similarity,
     suggested_mapping_type |->
         IF similarity.num * 10 > 9 * similarity.den THEN "equivalent" ELSE "related"]

\* lines 191-205: the entries one framework contributes, in the order of its controls
framework_similarities(fw_id, framework, source_control, threshold) ==
    LET controls == get_all_controls(framework)
        entries == [k \in DOMAIN controls |->
                       similar_entry(fw_id, controls[k],
                           calculate_text_similarity(control_text(source_control),
                                                     control_text(controls[k])))]
    IN  SelectSeq(entries, LAMBDA e : meets_threshold(e.similarity, threshold))

\* Mutant: the framework of the source control is searched like the others.
RECURSIVE discovered_similarities_OwnFramework(_, _, _, _, _, _)
discovered_similarities_OwnFramework(fws, k, framework_id, source_control, threshold, sims) ==
    IF k > Len(fws) THEN sims
    ELSE discovered_similarities_OwnFramework(fws, k + 1, framework_id, source_control,
             threshold,
             sims \o framework_similarities(fws[k].k, fws[k].v, source_control, threshold))

\* lines 186-205: the list similarities after the loop over the frameworks from k on
RECURSIVE discovered_similarities(_, _, _, _, _, _)
discovered_similarities(fws, k, framework_id, source_control, threshold, similarities) ==
    IF k > Len(fws) THEN similarities
    ELSE discovered_similarities(fws, k + 1, framework_id, source_control, threshold,
             IF fws[k].k = framework_id THEN similarities
             ELSE similarities \o
                  framework_similarities(fws[k].k, fws[k].v, source_control, threshold))

\* Mutant: an entry goes before the entries of equal similarity.
insert_by_similarity_BeforeEqual(sorted, e) ==
    LET before == {n \in DOMAIN sorted :
                      sorted[n].similarity.num * e.similarity.den
                          > e.similarity.num * sorted[n].similarity.den}
    IN  SubSeq(sorted, 1, Cardinality(before)) \o <<e>>
            \o SubSeq(sorted, Cardinality(before) + 1, Len(sorted))

\* one step of the stable descending sort: e goes behind the entries whose
\* similarity is greater than or equal to its own
insert_by_similarity(sorted, e) ==
    LET before == {n \in DOMAIN sorted :
                      sorted[n].similarity.num * e.similarity.den
                          >= e.similarity.num * sorted[n].similarity.den}
    IN  SubSeq(sorted, 1, Cardinality(before)) \o <<e>>
            \o SubSeq(sorted, Cardinality(before) + 1, Len(sorted))

\* line 207: sorted(similarities, key=similarity, reverse=True), which is stable
RECURSIVE sorted_by_similarity(_, _, _)
sorted_by_similarity(similarities, k, sorted) ==
    IF k > Len(similarities) THEN sorted
    ELSE sorted_by_similarity(similarities, k + 1,
             insert_by_similarity(sorted, similarities[k]))

\* lines 176-207
find_similar_controls(fws, control_id, framework_id, threshold) ==
    LET source_framework == get_framework(fws, framework_id)
    IN  IF source_framework = <<>> THEN <<>>
        ELSE LET source_control == get_control(source_framework[1], control_id)
             IN  IF source_control = <<>> THEN <<>>
                 ELSE sorted_by_similarity(
                          discovered_similarities(fws, 1, framework_id,
                              source_control[1], threshold, <<>>),
                          1, <<>>)

\* Mutant: the cell holds the number of unmapped target controls.
matrix_cell_TargetGaps(fws, maps, framework_id, target_id) ==
    LET analysis == analyze_gaps(fws, maps, framework_id, target_id)
    IN  [coverage |-> analysis.coverage_percentage,
         mappings |-> analysis.mapped_controls,
         gaps |-> Len(analysis.gaps.target)]

\* lines 164-169: the cell stored at matrix[framework_id][target_id]
matrix_cell(fws, maps, framework_id, target_id) ==
    LET analysis == analyze_gaps(fws, maps, framework_id, target_id)
    IN  [coverage |-> analysis.coverage_percentage,
         mappings |-> analysis.mapped_controls,
         gaps |-> Len(analysis.gaps.source)]

\* Mutant: a cell is computed for every pair, the diagonal included.
matrix_has_cell_Always(framework_id, target_id) == TRUE

\* line 163: the pairs a cell is computed for
matrix_has_cell(framework_id, target_id) == framework_id # target_id

\* lines 161-169: the row of framework_id, filled by the inner loop from target k on
RECURSIVE matrix_row(_, _, _, _, _, _)
matrix_row(fws, maps, framework_id, framework_ids, k, row) ==
    IF k > Len(framework_ids) THEN row
    ELSE matrix_row(fws, maps, framework_id, framework_ids, k + 1,
             IF matrix_has_cell(framework_id, framework_ids[k])
             THEN DictPut(row, framework_ids[k],
                      matrix_cell(fws, maps, framework_id, framework_ids[k]))
             ELSE row)

\* lines 158-169: the outer loop from framework k on; a row starts empty
RECURSIVE matrix_rows(_, _, _, _, _)
matrix_rows(fws, maps, framework_ids, k, matrix) ==
    IF k > Len(framework_ids) THEN matrix
    ELSE matrix_rows(fws, maps, framework_ids, k + 1,
             DictPut(matrix, framework_ids[k],
                 matrix_row(fws, maps, framework_ids[k], framework_ids, 1, <<>>)))

\* lines 155-156: the ids the call works on; none stands for the missing argument
matrix_framework_ids(fws, none, framework_ids) ==
    IF none THEN DictKeys(fws) ELSE framework_ids

\* lines 153-174
generate_compliance_matrix(fws, maps, none, framework_ids) ==
    LET ids == matrix_framework_ids(fws, none, framework_ids)
    IN  [frameworks |-> ids, matrix |-> matrix_rows(fws, maps, ids, 1, <<>>)]

\* line 164: the call raises the ValueError of the first analyze_gaps that raises
generate_compliance_matrix_raises(fws, none, framework_ids) ==
    LET ids == matrix_framework_ids(fws, none, framework_ids)
    IN  \E i \in DOMAIN ids, j \in DOMAIN ids :
            /\ matrix_has_cell(ids[i], ids[j])
            /\ analyze_gaps_raises(fws, ids[i], ids[j])

(***************************************************************************)
(* generate_report of the facade.  The generated_at time stamp is left     *)
(* out.                                                                    *)
(***************************************************************************)
\* a dict filled by the assignments d[pairs[k].k] = pairs[k].v, from pair k on
RECURSIVE dict_of(_, _, _)
dict_of(pairs, k, d) ==
    IF k > Len(pairs) THEN d
    ELSE dict_of(pairs, k + 1, DictPut(d, pairs[k].k, pairs[k].v))

(***************************************************************************)
(* The float behind a coverage percentage.  analyze_gaps computes          *)
(* (len(mappings) / len(source_controls)) * 100 in binary floating point   *)
(* (IEEE 754 double: 53 significant bits, round to nearest, ties to even), *)
(* and round(x, 2) rounds the float it is given, which can lie just below  *)
(* or just above the exact quotient.  A natural number too large for an    *)
(* integer of the checker is the sequence of its bits, lowest first.       *)
(***************************************************************************)
SignificantBits == 53

\* the bits of bits * m + c, for a sequence of bits from position k on
RECURSIVE bits_mul_add(_, _, _, _)
bits_mul_add(bits, m, c, k) ==
    IF k > Len(bits)
    THEN IF c = 0 THEN <<>> ELSE <<c % 2>> \o bits_mul_add(bits, m, c \div 2, k)
    ELSE <<(bits[k] * m + c) % 2>> \o bits_mul_add(bits, m, (bits[k] * m + c) \div 2, k + 1)

\* the sequence without its zeros at the high end
RECURSIVE bits_trim(_)
bits_trim(bits) ==
    IF bits # <<>> /\ bits[Len(bits)] = 0 THEN bits_trim(SubSeq(bits, 1, Len(bits) - 1))
    ELSE bits

\* -1, 0 or 1 as a is less than, equal to or greater than b, both without high zeros
bits_compare(a, b) ==
    IF Len(a) # Len(b) THEN IF Len(a) < Len(b) THEN 0 - 1 ELSE 1
    ELSE IF a = b THEN 0
    ELSE LET k == CHOOSE i \in DOMAIN a : a[i] # b[i] /\ \A j \in DOMAIN a : j > i => a[j] = b[j]
         IN  IF a[k] < b[k] THEN 0 - 1 ELSE 1

\* a natural number of more than 53 bits rounded to a multiple of 2 ^ (Len(bits) - 53):
\* the significand m and the number e of low bits dropped, the value being m * 2 ^ e
round_to_significant(bits, sticky) ==
    LET e == Len(bits) - SignificantBits
        kept == SubSeq(bits, e + 1, Len(bits))
        half == bits[e] = 1
        more == sticky \/ \E i \in 1..(e - 1) : bits[i] = 1
        up == half /\ (more \/ kept[1] = 1)
    IN  [m |-> IF up THEN bits_mul_add(kept, 1, 1, 1) ELSE kept, e |-> e]

\* the first 54 significant bits of r / q (r < q) behind the bits read so far, highest
\* first; f counts the binary places read
RECURSIVE quotient_bits(_, _, _, _)
quotient_bits(r, q, bits, f) ==
    IF Len(bits) = SignificantBits + 1 THEN [bits |-> bits, f |-> f, sticky |-> r # 0]
    ELSE LET b == IF 2 * r >= q THEN 1 ELSE 0
         IN  quotient_bits(2 * r - b * q, q,
                 IF bits = <<>> /\ b = 0 THEN <<>> ELSE Append(bits, b), f + 1)

\* the bits of a natural number, highest first
RECURSIVE high_first(_)
high_first(n) == IF n = 0 THEN <<>> ELSE Append(high_first(n \div 2), n % 2)

\* the float p / q of two positive integers: m * 2 ^ (0 - f)
float_div(p, q) ==
    LET d == quotient_bits(p % q, q, high_first(p \div q), 0)
        low_first == [i \in 1..Len(d.bits) |-> d.bits[Len(d.bits) + 1 - i]]
        rounded == round_to_significant(low_first, d.sticky)
    IN  [m |-> rounded.m, f |-> d.f - rounded.e]

\* the float a * k for a float a and a small positive integer k
float_mul(a, k) ==
    LET product == bits_mul_add(a.m, k, 0, 1)
        rounded == IF Len(product) > SignificantBits
                   THEN round_to_significant(product, FALSE)
                   ELSE [m |-> product, e |-> 0]
    IN  [m |-> rounded.m, f |-> a.f - rounded.e]

\* -1, 0 or 1 as the float a is less than, equal to or greater than the quotient x
float_compare(a, x) ==
    bits_compare(bits_trim(bits_mul_add(a.m, x.den, 0, 1)),
                 bits_trim([i \in 1..a.f |-> 0] \o bits_mul_add(<<1>>, x.num, 0, 1)))

\* the float analyze_gaps holds for the exact percentage x > 0: (n / d) * 100 with
\* n / d = x / 100
coverage_float(x) == float_mul(float_div(x.num, 100 * x.den), 100)

\* round(x, 2) of the float of the percentage x: to the nearest hundredth.  Where x is
\* half-way between two hundredths, the float decides: it lies below x, above x, or is
\* x itself, and then the even hundredth is taken
round2(x) ==
    LET q == (x.num * 100) \div x.den
        r == (x.num * 100) % x.den
        side == IF 2 * r = x.den THEN float_compare(coverage_float(x), x) ELSE 0
        up == \/ 2 * r > x.den
              \/ 2 * r = x.den /\ (side > 0 \/ (side = 0 /\ q % 2 = 1))
    IN  Frac(IF up THEN q + 1 ELSE q, 100)

\* line 77: frameworks or list(self.engine.frameworks.keys())
report_target_frameworks(fws, none, framework_ids) ==
    IF none \/ framework_ids = <<>> THEN DictKeys(fws) ELSE framework_ids

\* lines 122-127
coverage_cell(fws, maps, source_id, target_id) ==
    LET analysis == analyze_gaps(fws, maps, source_id, target_id)
    IN  [percentage |-> round2(analysis.coverage_percentage),
         mapped_controls |-> analysis.mapped_controls,
         total_controls |-> analysis.total_source_controls]

\* _calculate_framework_coverage, lines 115-130
calculate_framework_coverage(fws, maps, framework_ids) ==
    dict_of([n \in DOMAIN framework_ids |->
                [k |-> framework_ids[n],
                 v |-> LET targets == SelectSeq(framework_ids,
                                          LAMBDA t : t # framework_ids[n])
                       IN  dict_of([m \in DOMAIN targets |->
                                       [k |-> targets[m],
                                        v |-> coverage_cell(fws, maps, framework_ids[n],
                                                            targets[m])]],
                                   1, <<>>)]],
            1, <<>>)

\* Mutant: only the gaps of risk level high are significant.
is_significant_gap_HighOnly(gap) == gap.risk_level = "high"

\* line 143: gap["risk_level"] in ["high", "critical"]
is_significant_gap(gap) == gap.risk_level \in {"high", "critical"}

\* lines 139-144
gaps_cell(fws, maps, source_id, target_id) ==
    SelectSeq(analyze_gaps(fws, maps, source_id, target_id).gaps.source, is_significant_gap)

\* _identify_gaps, lines 132-146
identify_gaps(fws, maps, framework_ids) ==
    dict_of([n \in DOMAIN framework_ids |->
                [k |-> framework_ids[n],
                 v |-> LET targets == SelectSeq(framework_ids,
                                          LAMBDA t : t # framework_ids[n])
                       IN  dict_of([m \in DOMAIN targets |->
                                       [k |-> targets[m],
                                        v |-> gaps_cell(fws, maps, framework_ids[n],
                                                        targets[m])]],
                                   1, <<>>)]],
            1, <<>>)

\* _group_mappings_by_type, lines 105-113: a count per mapping type, the types in
\* the order of their first mapping
RECURSIVE group_mappings_by_type(_, _, _)
group_mappings_by_type(maps, k, grouped) ==
    IF k > Len(maps) THEN grouped
    ELSE group_mappings_by_type(maps, k + 1,
             DictPut(grouped, maps[k].mapping_type,
                 IF DictHas(grouped, maps[k].mapping_type)
                 THEN DictGet(grouped, maps[k].mapping_type) + 1 ELSE 1))

\* lines 81-91: the summaries of the target frameworks that are registered
report_frameworks(fws, target_frameworks) ==
    LET found == SelectSeq(target_frameworks, LAMBDA id : DictHas(fws, id))
    IN  [n \in DOMAIN found |->
            LET framework == DictGet(fws, found[n])
            IN  [id |-> framework.id, name |-> framework.name,
                 total_controls |-> Len(get_all_controls(framework)),
                 domains |-> Len(framework.domains)]]

\* generate_report, lines 77-103
generate_report(fws, maps, none, framework_ids) ==
    LET target_frameworks == report_target_frameworks(fws, none, framework_ids)
    IN  [frameworks |-> report_frameworks(fws, target_frameworks),
         mappings |-> [total |-> Len(maps),
                       verified |-> Len(SelectSeq(maps, LAMBDA m : m.verified)),
                       by_type |-> group_mappings_by_type(maps, 1, <<>>)],
         coverage |-> calculate_framework_coverage(fws, maps, target_frameworks),
         gaps |-> identify_gaps(fws, maps, target_frameworks)]

\* lines 121 and 141: the report raises the ValueError of analyze_gaps
generate_report_raises(fws, none, framework_ids) ==
    LET ids == report_target_frameworks(fws, none, framework_ids)
    IN  \E i \in DOMAIN ids, j \in DOMAIN ids :
            ids[i] # ids[j] /\ analyze_gaps_raises(fws, ids[i], ids[j])

(***************************************************************************)
(* The result of the last call: the operation, its arguments, the error    *)
(* raised ("none" when it returned) and the value returned.                *)
(***************************************************************************)
NoValue == "no value"

Return(op, args, val) == [op |-> op, args |-> args, err |-> "none", val |-> val]

Raise(op, args, err) == [op |-> op, args |-> args, err |-> err, val |-> NoValue]

Init ==
    /\ frameworks = <<>>
    /\ mappings = <<>>
    /\ ret = Return("init", <<>>, NoValue)

RegisterFrameworkOf(fw) ==
    /\ frameworks' = register_framework(frameworks, fw)
    /\ ret' = Return("register_framework", <<fw.id, fw>>, NoValue)
    /\ UNCHANGED mappings

RegisterFramework == \E fw \in Catalog : RegisterFrameworkOf(fw)

\* register_framework as the facade's start-up uses it (system.py, lines 17-26):
\* every framework is registered once, before the first mapping is added.
RegisterAtStartup ==
    \E fw \in Catalog :
        /\ mappings = <<>>
        /\ ~DictHas(frameworks, fw.id)
        /\ RegisterFrameworkOf(fw)

\* Mutant: the mapping is appended to the global list before it is validated.
AddMapping_AppendFirst ==
    \E inp \in AddMappingInputs :
        LET e == inp[1]
            tyc == inp[2]
            sf == e[1]
            sc == e[2]
            tf == e[3]
            tc == e[4]
            args == <<sf, sc, tf, tc, tyc[1], tyc[2]>>
        IN
        /\ Len(mappings) < MaxMappings
        /\ mappings' = Append(mappings, ControlMapping(sf, sc, tf, tc, tyc[1], tyc[2]))
        /\ IF ~ControlMappingValid(tyc[2])
           THEN /\ ret' = Raise("add_mapping", args, "ValidationError")
                /\ UNCHANGED frameworks
           ELSE /\ frameworks' = add_mapping_index(frameworks, sf, sc, tf, tc, tyc[1], tyc[2])
                /\ ret' = Return("add_mapping", args, mappings'[Len(mappings')])

\* MappingEngine.add_mapping, lines 35-65, on an engine whose list is kept within
\* limit mappings: the ControlMapping is built, and validated, first
AddMappingWithin(limit) ==
    \E inp \in AddMappingInputs :
        LET e == inp[1]
            tyc == inp[2]
            sf == e[1]
            sc == e[2]
            tf == e[3]
            tc == e[4]
            args == <<sf, sc, tf, tc, tyc[1], tyc[2]>>
        IN
        IF ~ControlMappingValid(tyc[2])
        THEN /\ ret' = Raise("add_mapping", args, "ValidationError")
             /\ UNCHANGED <<frameworks, mappings>>
        ELSE /\ Len(mappings) < limit
             /\ mappings' = Append(mappings, ControlMapping(sf, sc, tf, tc, tyc[1], tyc[2]))
             /\ frameworks' = add_mapping_index(frameworks, sf, sc, tf, tc, tyc[1], tyc[2])
             /\ ret' = Return("add_mapping", args, mappings'[Len(mappings')])

AddMapping == AddMappingWithin(MaxMappings)

FindMappingsForControl ==
    \E f \in FrameworkIds, c \in ControlIds :
        /\ ret' = Return("find_mappings_for_control", <<f, c>>,
                         find_mappings_for_control(mappings, f, c))
        /\ UNCHANGED <<frameworks, mappings>>

FindMappingsBetweenFrameworks ==
    \E f1 \in FrameworkIds, f2 \in FrameworkIds :
        /\ ret' = Return("find_mappings_between_frameworks", <<f1, f2>>,
                         find_mappings_between_frameworks(mappings, f1, f2))
        /\ UNCHANGED <<frameworks, mappings>>

AnalyzeGaps ==
    \E s \in FrameworkIds, t \in FrameworkIds :
        /\ ret' = IF analyze_gaps_raises(frameworks, s, t)
                  THEN Raise("analyze_gaps", <<s, t>>, "ValueError")
                  ELSE Return("analyze_gaps", <<s, t>>, analyze_gaps(frameworks, mappings, s, t))
        /\ UNCHANGED <<frameworks, mappings>>

\* register_framework by a client of the engine that registers the three frameworks
\* the factories build, in any order, each once and before it adds a mapping
RegisterSeedAtStartup ==
    \E fw \in SeedCatalog :
        /\ mappings = <<>>
        /\ ~DictHas(frameworks, fw.id)
        /\ RegisterFrameworkOf(fw)

(***************************************************************************)
(* Arguments given to generate_compliance_matrix: no list, or a list of    *)
(* ids: empty, one id, two or three ids in some order, an id twice.        *)
(***************************************************************************)
MatrixInputs ==
    {[none |-> TRUE, ids |-> <<>>]} \cup
    {[none |-> FALSE, ids |-> ids] :
        ids \in {<<>>, <<"A">>, <<"A", "B">>, <<"B", "A">>, <<"A", "C">>,
                 <<"C", "A", "B">>, <<"A", "B", "A">>}}

GenerateComplianceMatrix ==
    \E inp \in MatrixInputs :
        /\ ret' = IF generate_compliance_matrix_raises(frameworks, inp.none, inp.ids)
                  THEN Raise("generate_compliance_matrix", <<inp.none, inp.ids>>, "ValueError")
                  ELSE Return("generate_compliance_matrix", <<inp.none, inp.ids>>,
                           generate_compliance_matrix(frameworks, mappings, inp.none, inp.ids))
        /\ UNCHANGED <<frameworks, mappings>>

(***************************************************************************)
(* Texts given to _calculate_text_similarity: empty, mixed case, with      *)
(* punctuation, with a repeated word, with short words only, with digits   *)
(* and underscores, with accented letters and other Latin-1 characters.    *)
(***************************************************************************)
TextInputs ==
    {Chars(s) : s \in {"",
                       "Access Control Policy",
                       "access control policy",
                       "ACCESS-control, policy!",
                       "Access Policy access",
                       "of IT an",
                       "review of access policy",
                       "key_1 id2 a_b",
                       "Asset Inventory",
                       "Access Controls",
                       "Access Policy access control policy",
                       "a1b key_1",
                       "Contrôle d'ACCÈS",
                       "contrôle accès ×½"}}

CalculateTextSimilarity ==
    \E text1 \in TextInputs, text2 \in TextInputs :
        /\ ret' = Return("calculate_text_similarity", <<text1, text2>>,
                         calculate_text_similarity(text1, text2))
        /\ UNCHANGED <<frameworks, mappings>>

\* register_framework over the seeded frameworks and the draft, at any time
RegisterAnyFramework == \E fw \in SeedCatalog \cup {FwA0} : RegisterFrameworkOf(fw)

SeedFrameworkIds == {"A", "B", "C"}

(***************************************************************************)
(* Arguments given to find_similar_controls: a control id of one or two    *)
(* of the frameworks, and the thresholds 0.0, 0.5, 0.7 (the default) and   *)
(* 1.0 in tenths.                                                          *)
(***************************************************************************)
SimilarControlIds == {"c1", "c2", "c3", "c4"}

Thresholds == {0, 5, 7, 10}

FindSimilarControls ==
    \E control_id \in SimilarControlIds, framework_id \in SeedFrameworkIds,
       threshold \in Thresholds :
        /\ ret' = Return("find_similar_controls", <<control_id, framework_id, threshold>>,
                         find_similar_controls(frameworks, control_id, framework_id, threshold))
        /\ UNCHANGED <<frameworks, mappings>>

GetFramework ==
    \E framework_id \in SeedFrameworkIds :
        /\ ret' = Return("get_framework", <<framework_id>>,
                         get_framework(frameworks, framework_id))
        /\ UNCHANGED <<frameworks, mappings>>

GetAllFrameworks ==
    /\ ret' = Return("get_all_frameworks", <<>>, get_all_frameworks(frameworks))
    /\ UNCHANGED <<frameworks, mappings>>

(***************************************************************************)
(* Domains and controls added to a registered framework, each to the       *)
(* framework it names: two domains, a control of each, a control that      *)
(* changes its domain when added again, one without a domain and one       *)
(* naming a domain that is never added.                                    *)
(***************************************************************************)
DomainInputs ==
    {SecurityDomain("d1", "Access", "A"), SecurityDomain("d2", "Assets", "A"),
     SecurityDomain("", "Nameless", "A")}

ControlInputs ==
    {SecurityControl_in_domain(
         SecurityControl("x1", "Access Policy", "access control policy", "A", "high"), "d1"),
     SecurityControl_in_domain(
         SecurityControl("x1", "Access Policy", "access control policy", "A", "high"), "d2"),
     SecurityControl("x3", "Access Review", "review of access policy", "A", "medium"),
     SecurityControl_in_domain(
         SecurityControl("x4", "Access Control", "access control policy", "A", "low"), "d9"),
     SecurityControl_in_domain(
         SecurityControl("x5", "Access Policy", "access control policy", "A", "high"), "")}

AddDomain ==
    \E domain \in DomainInputs :
        /\ DictHas(frameworks, domain.framework_id)
        /\ frameworks' = DictPut(frameworks, domain.framework_id,
               SecurityFramework_add_domain(DictGet(frameworks, domain.framework_id), domain))
        /\ ret' = Return("add_domain", <<domain.framework_id, domain.id>>, NoValue)
        /\ UNCHANGED mappings

\* get_framework(control.framework_id).add_control(control), for one of the controls
AddControlOf(controls) ==
    \E control \in controls :
        /\ DictHas(frameworks, control.framework_id)
        /\ frameworks' = DictPut(frameworks, control.framework_id,
               SecurityFramework_add_control(DictGet(frameworks, control.framework_id), control))
        /\ ret' = Return("add_control", <<control.framework_id, control.id>>, NoValue)
        /\ UNCHANGED mappings

AddControl == AddControlOf(ControlInputs)

\* Controls given to add_control on a framework in use, after its mappings were
\* added: one of low risk naming a domain the framework does not have, one of high risk
LateControlInputs ==
    {SecurityControl_in_domain(
         SecurityControl("x4", "Access Control", "access control policy", "A", "low"), "d9"),
     SecurityControl_in_domain(
         SecurityControl("x1", "Access Policy", "access control policy", "A", "high"), "d1")}

AddLateControl == AddControlOf(LateControlInputs)

\* The same call with the control that no domain of the framework takes
AddControlOutsideDomains ==
    AddControlOf({control \in LateControlInputs : control.id = "x4"})

\* Arguments of SecurityDomain.add_control called on a domain of framework "A",
\* <<domain id, control>>: a control the framework does not hold, and a control equal
\* to the one the fixture holds as "c1", given to its own domain and to another one
DomainControlInputs ==
    {<<"d1", SecurityControl_in_domain(
                 SecurityControl("x1", "Access Policy", "access control policy", "A", "high"),
                 "d1")>>,
     <<"d1", SecurityControl_in_domain(
                 SecurityControl("c1", "Access Policy", "access control policy", "A", "high"),
                 "d1")>>,
     <<"d2", SecurityControl_in_domain(
                 SecurityControl("c1", "Access Policy", "access control policy", "A", "high"),
                 "d1")>>}

\* get_framework("A").get_domain(domain_id).add_control(control); get_domain gives
\* None for an id without domain, on which the caller has nothing to call
DomainAddControlOf(inputs) ==
    \E inp \in inputs :
        /\ DictHas(frameworks, "A")
        /\ DictHas(DictGet(frameworks, "A").domains, inp[1])
        /\ frameworks' = DictPut(frameworks, "A",
               SecurityFramework_domain_add_control(DictGet(frameworks, "A"), inp[1], inp[2]))
        /\ ret' = Return("domain_add_control", <<"A", inp[1], inp[2].id>>, NoValue)
        /\ UNCHANGED mappings

DomainAddControl == DomainAddControlOf(DomainControlInputs)

\* The same call with the one control the framework does not hold
DomainAddNewControl ==
    DomainAddControlOf({inp \in DomainControlInputs : inp[2].id = "x1"})

\* SecurityControl.add_mapping called on a control, <<f, c, framework_id, control_id,
\* mapping_type, confidence in tenths>>, f and c naming the control it is called on:
\* the method checks neither the ids nor the confidence
ControlMappingInputs == {<<"A", "c1", "B", "c1", "related", 5>>,
                         <<"B", "c1", "Z", "c9", "partial", 11>>}

\* get_framework(f).get_control(c).add_mapping(...): an index entry on the control
\* object, and no mapping in the engine's list; get_control gives None for an id
\* without control.  A control is given at most MaxMappings entries for one framework id.
ControlAddMapping ==
    \E inp \in ControlMappingInputs :
        /\ Resolves(frameworks, inp[1], inp[2])
        /\ LET fw == DictGet(frameworks, inp[1])
               old == DictGet(fw.controls, inp[2])
               new == SecurityControl_add_mapping(old, inp[3], inp[4], inp[5], inp[6])
           IN  /\ Len(get_mappings(old, <<inp[3]>>)) < MaxMappings
               /\ frameworks' = DictPut(frameworks, inp[1],
                      SecurityFramework_control_changed(fw, old, new))
        /\ ret' = Return("control_add_mapping", inp, NoValue)
        /\ UNCHANGED mappings

\* Arguments given to get_mappings: None, the empty string, and the three ids
GetMappingsInputs == {<<>>, <<"">>, <<"A">>, <<"B">>, <<"C">>}

\* SecurityControl.get_mappings on a control of a registered framework
GetMappings ==
    \E f \in SeedFrameworkIds, c \in SimilarControlIds, framework_id \in GetMappingsInputs :
        /\ Resolves(frameworks, f, c)
        /\ ret' = Return("get_mappings", <<f, c, framework_id>>,
                         get_mappings(DictGet(DictGet(frameworks, f).controls, c),
                                      framework_id))
        /\ UNCHANGED <<frameworks, mappings>>

VerifyMapping ==
    \E i \in DOMAIN mappings :
        /\ mappings' = [mappings EXCEPT ![i] = ControlMapping_verify(@)]
        /\ ret' = Return("verify", <<i>>, NoValue)
        /\ UNCHANGED frameworks

\* Mutant: the export hands the mapping list over and leaves the engine without it.
ExportMappings_Draining ==
    /\ ret' = Return("export_mappings", <<>>, export_mappings(frameworks, mappings))
    /\ mappings' = <<>>
    /\ UNCHANGED frameworks

ExportMappings ==
    /\ ret' = Return("export_mappings", <<>>, export_mappings(frameworks, mappings))
    /\ UNCHANGED <<frameworks, mappings>>

(***************************************************************************)
(* Data given to import_mappings: a verified mapping followed by one with  *)
(* a confidence out of range; an empty framework followed by one with a    *)
(* control, and a mapping; and what the engine itself exports.             *)
(***************************************************************************)
ImportData ==
    {[frameworks |-> <<>>,
      mappings |-> <<ControlMapping_verify(ControlMapping("A", "c1", "B", "c1", "equivalent", 10)),
                     [ControlMapping("B", "c1", "A", "c2", "related", 0)
                          EXCEPT !.confidence = 11]>>],
     [frameworks |-> <<export_framework(FwA0), export_framework(FwB)>>,
      mappings |-> <<ControlMapping("A", "c1", "B", "c1", "equivalent", 10)>>]}

ImportMappings ==
    \E data \in ImportData \cup {export_mappings(frameworks, mappings)},
       pydantic_v1 \in BOOLEAN :
        LET imported == import_mappings(frameworks, mappings, data, pydantic_v1)
        IN  /\ Len(imported.mappings) <= MaxMappings
            /\ frameworks' = imported.frameworks
            /\ mappings' = imported.mappings
            /\ ret' = IF imported.err = "none"
                      THEN Return("import_mappings", <<data, pydantic_v1>>, NoValue)
                      ELSE Raise("import_mappings", <<data, pydantic_v1>>, imported.err)

(***************************************************************************)
(* Arguments given to generate_report: no list, the empty list, the three  *)
(* ids, an id twice, and a list with an id ("Z") that is never registered. *)
(***************************************************************************)
ReportInputs ==
    {[none |-> TRUE, ids |-> <<>>]} \cup
    {[none |-> FALSE, ids |-> ids] :
        ids \in {<<>>, <<"C", "B", "A">>, <<"C", "C">>, <<"A", "Z">>}}

GenerateReport ==
    \E inp \in ReportInputs :
        /\ ret' = IF generate_report_raises(frameworks, inp.none, inp.ids)
                  THEN Raise("generate_report", <<inp.none, inp.ids>>, "ValueError")
                  ELSE Return("generate_report", <<inp.none, inp.ids>>,
                           generate_report(frameworks, mappings, inp.none, inp.ids))
        /\ UNCHANGED <<frameworks, mappings>>

(***************************************************************************)
(* The facade after construction (system.py, lines 17-50): the three       *)
(* frameworks are registered, the basic mappings are added with            *)
(* add_mapping, and those of confidence 0.8 or more are verified.          *)
(***************************************************************************)
BasicMappings ==
    <<<<"A", "c1", "B", "c1", "equivalent", 9>>,
      <<"A", "c2", "C", "c4", "related", 7>>,
      <<"B", "c1", "C", "c3", "related", 7>>>>

\* lines 22-26
initialize_frameworks ==
    register_framework(register_framework(register_framework(<<>>, FwA), FwB), FwC)

\* lines 30-45: the engine after the add_mapping calls from call k on
RECURSIVE initialize_basic_mappings(_, _, _)
initialize_basic_mappings(fws, maps, k) ==
    IF k > Len(BasicMappings) THEN [frameworks |-> fws, mappings |-> maps]
    ELSE LET a == BasicMappings[k]
         IN  initialize_basic_mappings(
                 add_mapping_index(fws, a[1], a[2], a[3], a[4], a[5], a[6]),
                 Append(maps, ControlMapping(a[1], a[2], a[3], a[4], a[5], a[6])),
                 k + 1)

\* lines 47-50
verify_confident(maps) ==
    [i \in DOMAIN maps |->
        IF maps[i].confidence >= 8 THEN ControlMapping_verify(maps[i]) ELSE maps[i]]

\* SecurityFrameworkMappings(): the constructor runs the three steps in this order,
\* and the loop of lines 47-50 once, before any method of the facade can be called
InitSystem ==
    LET engine == initialize_basic_mappings(initialize_frameworks, <<>>, 1)
    IN  /\ frameworks = engine.frameworks
        /\ mappings = verify_confident(engine.mappings)
        /\ ret = Return("init", <<>>, NoValue)

\* get_engine().add_mapping(...) on the constructed facade: up to MaxMappings
\* mappings are added to the basic ones, and no loop verifies them
AddMappingAfterStartup == AddMappingWithin(Len(BasicMappings) + MaxMappings)

Next ==
    \/ RegisterFramework
    \/ AddMapping
    \/ FindMappingsForControl
    \/ FindMappingsBetweenFrameworks
    \/ AnalyzeGaps

Spec == Init /\ [][Next]_vars

(***************************************************************************)
(* The engine as its life cycle is meant to be: frameworks are registered  *)
(* first, each id once, and mappings are added afterwards.                 *)
(***************************************************************************)
NextStartup ==
    \/ RegisterAtStartup
    \/ AddMapping

SpecStartup == Init /\ [][NextStartup]_vars

(***************************************************************************)
(* The operations that change the engine, in any order: a framework may    *)
(* be registered, or registered again, at any time.                        *)
(***************************************************************************)
NextMutators ==
    \/ RegisterFramework
    \/ AddMapping

SpecMutators == Init /\ [][NextMutators]_vars

(***************************************************************************)
(* The compliance matrix of an engine used on its own, without the facade: *)
(* the three frameworks are registered, mappings are added, the matrix is  *)
(* generated by MappingEngine.generate_compliance_matrix.  The matrix of   *)
(* the facade is a step of SpecSystem.                                     *)
(***************************************************************************)
NextMatrix ==
    \/ RegisterSeedAtStartup
    \/ AddMapping
    \/ GenerateComplianceMatrix

SpecMatrix == Init /\ [][NextMatrix]_vars

(***************************************************************************)
(* The text similarity on its own, applied to every pair of texts.         *)
(***************************************************************************)
NextSimilarity == CalculateTextSimilarity

SpecSimilarity == Init /\ [][NextSimilarity]_vars

(***************************************************************************)
(* The similarity search over a registry that frameworks enter, and        *)
(* enter again, in any order.                                              *)
(***************************************************************************)
NextSimilar ==
    \/ RegisterAnyFramework
    \/ FindSimilarControls

SpecSimilar == Init /\ [][NextSimilar]_vars

(***************************************************************************)
(* The registry on its own: frameworks are registered, and registered      *)
(* again, in any order, and looked up.                                     *)
(***************************************************************************)
NextRegistry ==
    \/ RegisterAnyFramework
    \/ GetFramework
    \/ GetAllFrameworks

SpecRegistry == Init /\ [][NextRegistry]_vars

(***************************************************************************)
(* A framework under construction: it is registered, and domains and       *)
(* controls are added to it in any order, the controls through the         *)
(* framework or to one of its domains.                                     *)
(***************************************************************************)
NextFramework ==
    \/ RegisterAtStartup
    \/ AddDomain
    \/ AddControl
    \/ DomainAddControl

SpecFramework == Init /\ [][NextFramework]_vars

(***************************************************************************)
(* The objects behind the engine, reached through get_framework: a domain  *)
(* is given a control of its own, a control an index entry of its own, and *)
(* the engine adds mappings to what it then finds.                         *)
(***************************************************************************)
NextObjects ==
    \/ RegisterAtStartup
    \/ DomainAddControl
    \/ ControlAddMapping
    \/ AddMapping

SpecObjects == Init /\ [][NextObjects]_vars

(***************************************************************************)
(* The analysis of an engine in use: frameworks are registered, mappings   *)
(* are added, a framework is given a control, a domain a control of its    *)
(* own, and between these calls the gaps are analysed.                     *)
(***************************************************************************)
NextAnalysis ==
    \/ RegisterAtStartup
    \/ AddMapping
    \/ AddControlOutsideDomains
    \/ DomainAddNewControl
    \/ AnalyzeGaps

SpecAnalysis == Init /\ [][NextAnalysis]_vars

(***************************************************************************)
(* The life of the mapping list: frameworks are registered at start-up,    *)
(* mappings are then added, verified, exported and imported in any order;  *)
(* an import registers frameworks again.                                   *)
(***************************************************************************)
NextLifecycle ==
    \/ RegisterAtStartup
    \/ AddMapping
    \/ VerifyMapping
    \/ ExportMappings
    \/ ImportMappings

SpecLifecycle == Init /\ [][NextLifecycle]_vars

(***************************************************************************)
(* The report of the constructed facade: mappings are added through its    *)
(* engine and controls to a framework of it, the report is generated.  The *)
(* report after mappings were verified one by one is a step of SpecSystem. *)
(***************************************************************************)
NextReport ==
    \/ AddMappingAfterStartup
    \/ AddLateControl
    \/ GenerateReport

SpecReport == InitSystem /\ [][NextReport]_vars

(***************************************************************************)
(* The constructed facade in use: mappings are verified and every query    *)
(* is made.                                                                *)
(***************************************************************************)
NextSystem ==
    \/ VerifyMapping
    \/ GetMappings
    \/ FindMappingsForControl
    \/ FindMappingsBetweenFrameworks
    \/ AnalyzeGaps
    \/ GenerateComplianceMatrix
    \/ FindSimilarControls
    \/ ExportMappings
    \/ GenerateReport

SpecSystem == InitSystem /\ [][NextSystem]_vars

(***************************************************************************)
(* Vocabulary of the properties.                                           *)
(***************************************************************************)
\* The framework ids registered in the engine
Registered == Range(DictKeys(frameworks))

\* The (framework id, control id) pairs that resolve to a control object
RegisteredControls ==
    {p \in FrameworkIds \X ControlIds : Resolves(frameworks, p[1], p[2])}

\* The per-control index of control c of framework f under framework id g
IndexOf(fws, f, c, g) == get_mappings(DictGet(DictGet(fws, f).controls, c), <<g>>)

\* The positions of the global list at which m satisfies P
Positions(maps, P(_)) == {i \in DOMAIN maps : P(maps[i])}

\* r lists exactly the elements of maps that satisfy P, each once, in the order of maps
IsSelection(r, maps, P(_)) ==
    LET pos == Positions(maps, P) IN
    /\ Len(r) = Cardinality(pos)
    /\ \A n \in DOMAIN r :
          \E i \in pos : /\ Cardinality({j \in pos : j <= i}) = n
                         /\ r[n] = maps[i]

NamesAsSource(m, f, c) == m.source_framework = f /\ m.source_control = c

NamesAsTarget(m, f, c) == m.target_framework = f /\ m.target_control = c

AddReturned == ret.op = "add_mapping" /\ ret.err = "none"

(***************************************************************************)
(* C1.  add_mapping with a confidence below 0 or above 1 fails with a      *)
(* ValidationError and returns no mapping; with a confidence in [0,1],     *)
(* bounds included, it returns the mapping it created from its arguments,  *)
(* which is the last one of the global list.                               *)
(***************************************************************************)
C1_ConfidenceValidated ==
    ret.op = "add_mapping" =>
        IF ret.args[6] < 0 \/ ret.args[6] > 10
        THEN ret.err = "ValidationError"
        ELSE /\ ret.err = "none"
             /\ mappings # <<>>
             /\ ret.val = mappings[Len(mappings)]
             /\ ret.val.source_framework = ret.args[1]
             /\ ret.val.source_control = ret.args[2]
             /\ ret.val.target_framework = ret.args[3]
             /\ ret.val.target_control = ret.args[4]
             /\ ret.val.mapping_type = ret.args[5]
             /\ ret.val.confidence = ret.args[6]

\* add_mapping was given a confidence of 1.1 and failed, with mappings already stored
C1_Witness ==
    /\ ret.op = "add_mapping"
    /\ ret.args[6] > 10
    /\ ret.err = "ValidationError"
    /\ mappings # <<>>

(***************************************************************************)
(* C2.  A successful add_mapping appends its mapping to the global list    *)
(* whether or not its endpoints resolve, and changes the per-control       *)
(* indexes by exactly this: the source control, when it resolves, gets     *)
(* one entry (target control, type, confidence) under the target           *)
(* framework id, and the target control, when it resolves, gets one entry  *)
(* (source control, type, confidence) under the source framework id.  A    *)
(* side that resolves gets its entry even when the other side does not.    *)
(***************************************************************************)
C2_EntriesAdded(f, c, g) ==
    LET a == ret'.args
        e(cid) == <<[control_id |-> cid, mapping_type |-> a[5], confidence |-> a[6]]>>
    IN  (IF f = a[1] /\ c = a[2] /\ g = a[3] THEN e(a[4]) ELSE <<>>)
        \o (IF f = a[3] /\ c = a[4] /\ g = a[1] THEN e(a[2]) ELSE <<>>)

C2_AddMappingStep ==
    (ret'.op = "add_mapping" /\ ret'.err = "none") =>
        /\ Len(mappings') = Len(mappings) + 1
        /\ SubSeq(mappings', 1, Len(mappings)) = mappings
        /\ NamesAsSource(mappings'[Len(mappings')], ret'.args[1], ret'.args[2])
        /\ NamesAsTarget(mappings'[Len(mappings')], ret'.args[3], ret'.args[4])
        /\ DictKeys(frameworks') = DictKeys(frameworks)
        /\ \A f \in Registered :
              /\ DictKeys(DictGet(frameworks', f).controls)
                    = DictKeys(DictGet(frameworks, f).controls)
              /\ \A c \in Range(DictKeys(DictGet(frameworks, f).controls)) :
                    \A g \in FrameworkIds :
                        IndexOf(frameworks', f, c, g)
                            = IndexOf(frameworks, f, c, g) \o C2_EntriesAdded(f, c, g)

C2_UnresolvedSideSkipped == [][C2_AddMappingStep]_vars

\* add_mapping returned with an unresolved source and a resolved target, which holds
\* the entry of the mapping
C2_Witness ==
    /\ AddReturned
    /\ ~Resolves(frameworks, ret.args[1], ret.args[2])
    /\ Resolves(frameworks, ret.args[3], ret.args[4])
    /\ Len(IndexOf(frameworks, ret.args[3], ret.args[4], ret.args[1])) = 1
    /\ Len(mappings) = 2

(***************************************************************************)
(* C3.  When every framework is registered once and before the first       *)
(* mapping is added, the per-control indexes agree with the global list:   *)
(* for a registered control c of framework f and a framework id g, the     *)
(* index of c under g has as many entries as there are mappings with       *)
(* source (f,c) and target framework g plus mappings with target (f,c)     *)
(* and source framework g, and its entries are, in the order of the        *)
(* global list, the other endpoint's control id, the type and the          *)
(* confidence of these mappings.                                           *)
(***************************************************************************)
RECURSIVE C3_Expected(_, _, _, _)
C3_Expected(maps, f, c, g) ==
    IF maps = <<>> THEN <<>>
    ELSE LET m == maps[Len(maps)]
             e(cid) == <<[control_id |-> cid, mapping_type |-> m.mapping_type,
                          confidence |-> m.confidence]>>
         IN  C3_Expected(SubSeq(maps, 1, Len(maps) - 1), f, c, g)
             \o (IF NamesAsSource(m, f, c) /\ m.target_framework = g
                 THEN e(m.target_control) ELSE <<>>)
             \o (IF NamesAsTarget(m, f, c) /\ m.source_framework = g
                 THEN e(m.source_control) ELSE <<>>)

C3_AsSource(f, c, g) ==
    {i \in DOMAIN mappings : NamesAsSource(mappings[i], f, c) /\ mappings[i].target_framework = g}

C3_AsTarget(f, c, g) ==
    {i \in DOMAIN mappings : NamesAsTarget(mappings[i], f, c) /\ mappings[i].source_framework = g}

C3_IndexConsistent ==
    \A p \in RegisteredControls : \A g \in FrameworkIds :
        /\ Len(IndexOf(frameworks, p[1], p[2], g))
              = Cardinality(C3_AsSource(p[1], p[2], g)) + Cardinality(C3_AsTarget(p[1], p[2], g))
        /\ IndexOf(frameworks, p[1], p[2], g) = C3_Expected(mappings, p[1], p[2], g)

\* a registered control holds, under one framework id, an entry of a mapping that names
\* it as source and an entry of a mapping that names it as target
C3_Witness ==
    \E p \in RegisteredControls : \E g \in FrameworkIds :
        /\ C3_AsSource(p[1], p[2], g) # {}
        /\ C3_AsTarget(p[1], p[2], g) # {}
        /\ Len(IndexOf(frameworks, p[1], p[2], g)) = 2

(***************************************************************************)
(* C4.  find_mappings_for_control(f, c) returns exactly the mappings of    *)
(* the global list that name (f, c) as their source endpoint or as their   *)
(* target endpoint, each once, in the order of the list.  A mapping that   *)
(* shares only the control id, or only the framework id, is not returned.  *)
(***************************************************************************)
C4_NamesPair(m) ==
    \/ NamesAsSource(m, ret.args[1], ret.args[2])
    \/ NamesAsTarget(m, ret.args[1], ret.args[2])

C4_ExactlyTheEndpointMappings ==
    ret.op = "find_mappings_for_control" =>
        /\ ret.err = "none"
        /\ IsSelection(ret.val, mappings, C4_NamesPair)

\* one mapping is returned and the other one, which names the same control id in
\* another framework, is not
C4_Witness ==
    /\ ret.op = "find_mappings_for_control"
    /\ Len(mappings) = 2
    /\ ret.val = <<mappings[2]>>
    /\ mappings[1].target_control = ret.args[2]
    /\ mappings[1].target_framework # ret.args[1]

(***************************************************************************)
(* C5.  As claimed: in every reachable state, find_mappings_for_control    *)
(* called with a pair that is not registered in the engine returns an      *)
(* empty list and raises no error.  The code refutes this: add_mapping     *)
(* stores mappings whose endpoints are not registered, and the lookup      *)
(* scans the global list without looking at the registry.                  *)
(***************************************************************************)
C5_UnregisteredCall ==
    /\ ret.op = "find_mappings_for_control"
    /\ ~Resolves(frameworks, ret.args[1], ret.args[2])

C5_Original_EmptyForUnregistered ==
    C5_UnregisteredCall => (ret.err = "none" /\ ret.val = <<>>)

(***************************************************************************)
(* C5, amended.  find_mappings_for_control called with a pair that is not  *)
(* registered raises no error; it returns an empty list exactly when no    *)
(* mapping of the global list names the pair as source or target, and      *)
(* otherwise the mappings that name it.                                    *)
(***************************************************************************)
C5_SilentForUnregistered ==
    C5_UnregisteredCall =>
        /\ ret.err = "none"
        /\ (ret.val = <<>>) <=> (Positions(mappings, C4_NamesPair) = {})
        /\ \A n \in DOMAIN ret.val : C4_NamesPair(ret.val[n]) /\ ret.val[n] \in Range(mappings)

\* the pair is not registered, mappings are stored, and the lookup returned nothing
C5_Witness ==
    /\ C5_UnregisteredCall
    /\ Len(mappings) = 2
    /\ ret.val = <<>>

(***************************************************************************)
(* C6.  find_mappings_between_frameworks(fw1, fw2) returns exactly the     *)
(* mappings whose (source_framework, target_framework) is (fw1, fw2) or    *)
(* (fw2, fw1), in the order of the global list, and the call with the      *)
(* arguments swapped returns the same list.                                *)
(***************************************************************************)
C6_Between(m) ==
    \/ (m.source_framework = ret.args[1] /\ m.target_framework = ret.args[2])
    \/ (m.source_framework = ret.args[2] /\ m.target_framework = ret.args[1])

C6_BothDirections ==
    ret.op = "find_mappings_between_frameworks" =>
        /\ ret.err = "none"
        /\ IsSelection(ret.val, mappings, C6_Between)
        /\ ret.val = find_mappings_between_frameworks(mappings, ret.args[2], ret.args[1])

\* the call returned two mappings stored in opposite directions
C6_Witness ==
    /\ ret.op = "find_mappings_between_frameworks"
    /\ ret.args[1] # ret.args[2]
    /\ Len(ret.val) = 2
    /\ ret.val[1].source_framework = ret.args[2]
    /\ ret.val[2].source_framework = ret.args[1]

(***************************************************************************)
(* C7.  analyze_gaps fails with the not-found error (a ValueError) and     *)
(* returns nothing when the source id or the target id is not registered;  *)
(* when both are registered it returns a GapAnalysis of the two ids.       *)
(***************************************************************************)
C7_NotFound ==
    ret.op = "analyze_gaps" =>
        IF ret.args[1] \in Registered /\ ret.args[2] \in Registered
        THEN /\ ret.err = "none"
             /\ ret.val.source_framework = ret.args[1]
             /\ ret.val.target_framework = ret.args[2]
        ELSE ret.err = "ValueError"

\* the source is registered, the target is not, and the call failed
C7_Witness ==
    /\ ret.op = "analyze_gaps"
    /\ ret.args[1] \in Registered
    /\ ret.args[2] \notin Registered
    /\ ret.err = "ValueError"

(***************************************************************************)
(* C8.  As claimed: for two registered, different frameworks A and B       *)
(* where A has at least one control, and after any sequence of             *)
(* add_mapping calls, analyze_gaps(A,B).coverage_percentage lies in        *)
(* [0,100].  The code refutes this: the numerator is the raw number of     *)
(* mappings between A and B, which can exceed the number of A's controls.  *)
(***************************************************************************)
C8_Call ==
    /\ ret.op = "analyze_gaps"
    /\ ret.err = "none"
    /\ ret.args[1] # ret.args[2]
    /\ Len(get_all_controls(DictGet(frameworks, ret.args[1]))) >= 1

C8_Original_CoverageWithin100 ==
    C8_Call =>
        /\ ret.val.coverage_percentage.num >= 0
        /\ ret.val.coverage_percentage.num <= 100 * ret.val.coverage_percentage.den

(***************************************************************************)
(* C8, amended.  For two registered, different frameworks A and B where A  *)
(* has at least one control, analyze_gaps(A,B).coverage_percentage is at   *)
(* least 0, and it is at most 100 exactly when the number of mappings      *)
(* between A and B does not exceed the number of A's controls.             *)
(***************************************************************************)
C8_CoverageRange ==
    C8_Call =>
        /\ ret.val.coverage_percentage.den > 0
        /\ ret.val.coverage_percentage.num >= 0
        /\ (ret.val.coverage_percentage.num <= 100 * ret.val.coverage_percentage.den)
             <=> (Cardinality(Positions(mappings, C6_Between))
                    <= Len(get_all_controls(DictGet(frameworks, ret.args[1]))))

\* two mappings between the frameworks, one source control: a coverage of 200
C8_Witness ==
    /\ C8_Call
    /\ ret.val.total_source_controls = 1
    /\ Cardinality(Positions(mappings, C6_Between)) = 2
    /\ ret.val.coverage_percentage = [num |-> 200, den |-> 1]

(***************************************************************************)
(* C9.  When the source framework is registered and has no controls (and   *)
(* the target is registered), analyze_gaps returns, without any error, a   *)
(* coverage_percentage of exactly 0, whatever the number of mappings       *)
(* between the two frameworks.                                             *)
(***************************************************************************)
C9_ZeroWithoutControls ==
    (/\ ret.op = "analyze_gaps"
     /\ ret.args[1] \in Registered
     /\ ret.args[2] \in Registered
     /\ get_all_controls(DictGet(frameworks, ret.args[1])) = <<>>) =>
        /\ ret.err = "none"
        /\ ret.val.total_source_controls = 0
        /\ ret.val.coverage_percentage = [num |-> 0, den |-> 1]

\* the source framework has no controls and two mappings lie between the frameworks
C9_Witness ==
    /\ ret.op = "analyze_gaps"
    /\ ret.err = "none"
    /\ ret.args[1] # ret.args[2]
    /\ get_all_controls(DictGet(frameworks, ret.args[1])) = <<>>
    /\ Cardinality(Positions(mappings, C6_Between)) = 2
    /\ ret.val.coverage_percentage.num = 0

(***************************************************************************)
(* C10.  analyze_gaps(A,B).mapped_controls is the number of mappings that  *)
(* find_mappings_between_frameworks(A,B) returns, with no deduplication:   *)
(* several mappings on one control each count, and so do mappings naming   *)
(* control ids that neither framework has.  When A has n > 0 controls,     *)
(* coverage_percentage is mapped_controls / n * 100.                       *)
(***************************************************************************)
C10_RawMappingCount ==
    (ret.op = "analyze_gaps" /\ ret.err = "none") =>
        LET n == Len(get_all_controls(DictGet(frameworks, ret.args[1]))) IN
        /\ ret.val.mapped_controls = Cardinality(Positions(mappings, C6_Between))
        /\ ret.val.mapped_controls
             = Len(find_mappings_between_frameworks(mappings, ret.args[1], ret.args[2]))
        /\ ret.val.total_source_controls = n
        /\ n > 0 =>
             /\ ret.val.coverage_percentage.den > 0
             /\ ret.val.coverage_percentage.num * n
                  = ret.val.mapped_controls * 100 * ret.val.coverage_percentage.den

\* the same mapping was added twice: mapped_controls is 2 where a single control of
\* the source framework is covered
C10_Witness ==
    /\ ret.op = "analyze_gaps"
    /\ ret.err = "none"
    /\ ret.args[1] # ret.args[2]
    /\ Len(mappings) = 2
    /\ mappings[1] = mappings[2]
    /\ ret.val.mapped_controls = 2
    /\ ret.val.total_source_controls = 2
    /\ Len(ret.val.unmapped_source_controls) = 1

(***************************************************************************)
(* C11.  In analyze_gaps(A,B), a control of A is listed in                 *)
(* unmapped_source_controls exactly when no mapping between A and B names  *)
(* its id on the A side (its source_control when the mapping's             *)
(* source_framework is A, its target_control otherwise), and a control of  *)
(* B is listed in unmapped_target_controls exactly when no such mapping    *)
(* names its id on the B side (its target_control when the mapping's       *)
(* source_framework is A, its source_control otherwise).  Each list keeps  *)
(* the order of the framework's controls, and gaps.source and gaps.target  *)
(* are these two lists.                                                    *)
(***************************************************************************)
C11_CoveredOnA ==
    {IF mappings[i].source_framework = ret.args[1]
     THEN mappings[i].source_control ELSE mappings[i].target_control :
        i \in Positions(mappings, C6_Between)}

C11_CoveredOnB ==
    {IF mappings[i].source_framework = ret.args[1]
     THEN mappings[i].target_control ELSE mappings[i].source_control :
        i \in Positions(mappings, C6_Between)}

\* listed holds exactly the controls of the list whose id is not covered, in order
C11_ListsUncovered(listed, controls, covered) ==
    /\ \A k \in DOMAIN controls :
          (\E n \in DOMAIN listed : listed[n].id = controls[k].id)
              <=> (controls[k].id \notin covered)
    /\ \A n \in DOMAIN listed :
          \E k \in DOMAIN controls :
              /\ listed[n] = [id |-> controls[k].id, title |-> controls[k].title,
                              description |-> controls[k].description,
                              risk_level |-> controls[k].risk_level]
              /\ Cardinality({j \in 1..k : controls[j].id \notin covered}) = n

C11_UnmappedLists ==
    (ret.op = "analyze_gaps" /\ ret.err = "none") =>
        /\ C11_ListsUncovered(ret.val.unmapped_source_controls,
               get_all_controls(DictGet(frameworks, ret.args[1])), C11_CoveredOnA)
        /\ C11_ListsUncovered(ret.val.unmapped_target_controls,
               get_all_controls(DictGet(frameworks, ret.args[2])), C11_CoveredOnB)
        /\ ret.val.gaps.source = ret.val.unmapped_source_controls
        /\ ret.val.gaps.target = ret.val.unmapped_target_controls

\* a mapping stored from B to A covers control c2 of A and control c1 of B: c1 of A is
\* the only unmapped source control and no target control is unmapped
C11_Witness ==
    /\ ret.op = "analyze_gaps"
    /\ ret.err = "none"
    /\ ret.args = <<"A", "B">>
    /\ \E i \in DOMAIN mappings : mappings[i].source_framework = "B"
    /\ Len(ret.val.unmapped_source_controls) = 1
    /\ ret.val.unmapped_source_controls[1].id = "c1"
    /\ ret.val.total_target_controls = 1
    /\ ret.val.unmapped_target_controls = <<>>

(***************************************************************************)
(* C12.  analyze_gaps is idempotent: two calls of analyze_gaps(A,B) return *)
(* identical results (the same totals, mapped_controls,                    *)
(* coverage_percentage, unmapped lists and gaps, or the same error) when   *)
(* no register_framework, add_mapping, import, verify or                   *)
(* SecurityFramework.add_control is called between them.  Stated on the    *)
(* steps: a call returns the analysis of the state it is made in, and a    *)
(* step of any other call than those five leaves the analysis of every     *)
(* pair as it was, so the second call returns what the first returned.     *)
(* As first stated, without add_control in the list, it does not hold: a   *)
(* control added to the source framework between the two calls is counted  *)
(* and listed by the second.                                               *)
(***************************************************************************)
\* what analyze_gaps(s, t) returns on an engine: the error it raises or its result
C12_Result(fws, maps, s, t) ==
    IF analyze_gaps_raises(fws, s, t)
    THEN [err |-> "ValueError", val |-> NoValue]
    ELSE [err |-> "none", val |-> analyze_gaps(fws, maps, s, t)]

\* the calls the claim allows no two analyses to be separated by
C12_Listed == {"register_framework", "add_mapping", "import_mappings", "verify"}

\* a step: an analysis returns the result of the state before it, and a call that is
\* not among the excluded ones changes the result of no pair
C12_Step(excluded) ==
    /\ ret'.op = "analyze_gaps" =>
           [err |-> ret'.err, val |-> ret'.val] =
               C12_Result(frameworks, mappings, ret'.args[1], ret'.args[2])
    /\ ret'.op \notin excluded =>
           \A s \in FrameworkIds, t \in FrameworkIds :
               C12_Result(frameworks', mappings', s, t) = C12_Result(frameworks, mappings, s, t)

\* C12 as first stated: the two calls agree when none of register_framework,
\* add_mapping, import and verify is called between them
C12_Original_ListedCalls == [][C12_Step(C12_Listed)]_vars

\* C12: the two calls agree when none of register_framework, add_mapping, import,
\* verify and SecurityFramework.add_control is called between them
C12_Idempotent == [][C12_Step(C12_Listed \cup {"add_control"})]_vars

\* an analysis from A to B returned, on one mapping, the gap c2 and not x1, which
\* SecurityDomain.add_control gave to domain d1 of A only: a call outside the list
\* was made and left the analysis as it was
C12_Witness ==
    /\ ret.op = "analyze_gaps"
    /\ ret.args = <<"A", "B">>
    /\ ret.err = "none"
    /\ ret.val.mapped_controls = 1
    /\ ret.val.total_source_controls = 2
    /\ Len(ret.val.unmapped_source_controls) = 1
    /\ ret.val.unmapped_source_controls[1].id = "c2"
    /\ DictHas(DictGet(DictGet(frameworks, "A").domains, "d1").controls, "x1")
    /\ ~DictHas(DictGet(frameworks, "A").controls, "x1")

(***************************************************************************)
(* C13.  generate_compliance_matrix over n distinct registered framework   *)
(* ids (all registered ids, in registry order, when no list is given)      *)
(* returns a matrix with exactly n top-level keys, one per id, each row    *)
(* holding exactly n-1 inner keys, one per other id, and no diagonal       *)
(* entry; over the three seeded frameworks: 3 rows of 2 cells.             *)
(***************************************************************************)
\* the ids the last generate_compliance_matrix call worked on
C13_Ids == IF ret.args[1] THEN DictKeys(frameworks) ELSE ret.args[2]

C13_DistinctRegistered ==
    /\ \A i \in DOMAIN C13_Ids, j \in DOMAIN C13_Ids : C13_Ids[i] = C13_Ids[j] => i = j
    /\ Range(C13_Ids) \subseteq Registered

C13_MatrixShape ==
    (ret.op = "generate_compliance_matrix" /\ C13_DistinctRegistered) =>
        /\ ret.err = "none"
        /\ ret.val.frameworks = C13_Ids
        /\ Len(ret.val.matrix) = Len(C13_Ids)
        /\ Range(DictKeys(ret.val.matrix)) = Range(C13_Ids)
        /\ \A i \in Range(C13_Ids) :
              LET row == DictGet(ret.val.matrix, i)
              IN  /\ Len(row) = Len(C13_Ids) - 1
                  /\ Range(DictKeys(row)) = Range(C13_Ids) \ {i}

\* the matrix of the three seeded frameworks, generated without a list
C13_Witness ==
    /\ ret.op = "generate_compliance_matrix"
    /\ ret.args[1]
    /\ ret.err = "none"
    /\ Registered = {"A", "B", "C"}
    /\ Len(ret.val.matrix) = 3
    /\ \A n \in 1..3 : Len(ret.val.matrix[n].v) = 2

(***************************************************************************)
(* C14.  For every ordered pair (i, j) of distinct ids given to            *)
(* generate_compliance_matrix, matrix[i][j] holds the coverage_percentage  *)
(* of analyze_gaps(i,j) as coverage, its mapped_controls as mappings and   *)
(* the number of its unmapped source controls as gaps, on the state at     *)
(* the time of the call.                                                   *)
(***************************************************************************)
C14_CellsFromAnalysis ==
    (ret.op = "generate_compliance_matrix" /\ ret.err = "none") =>
        \A i \in Range(C13_Ids), j \in Range(C13_Ids) :
            i # j =>
                LET cell == DictGet(DictGet(ret.val.matrix, i), j)
                    analysis == analyze_gaps(frameworks, mappings, i, j)
                IN  /\ cell.coverage = analysis.coverage_percentage
                    /\ cell.mappings = analysis.mapped_controls
                    /\ cell.gaps = Len(analysis.unmapped_source_controls)

\* two mappings on control c1 of A: the cell from A to B counts one gap (c2), the
\* cell from B to A none
C14_Witness ==
    /\ ret.op = "generate_compliance_matrix"
    /\ ret.err = "none"
    /\ ret.args[2] = <<"C", "A", "B">>
    /\ DictGet(DictGet(ret.val.matrix, "A"), "B").mappings = 2
    /\ DictGet(DictGet(ret.val.matrix, "A"), "B").gaps = 1
    /\ DictGet(DictGet(ret.val.matrix, "B"), "A").gaps = 0
    /\ DictGet(DictGet(ret.val.matrix, "C"), "A").gaps = 2

(***************************************************************************)
(* C18.  The text similarity of two strings is |A \cap B| / |A \cup B|,    *)
(* where A and B are the sets of the distinct lower-cased word tokens      *)
(* (maximal runs of letters, digits and underscores) longer than 2 of each *)
(* string, and 0 when A or B is empty; it is symmetric, lies in [0,1],     *)
(* and is exactly 1 for two strings with the same non-empty token set.     *)
(***************************************************************************)
\* the maximal runs of word characters of a text, lower-cased, longer than 2
C18_Tokens(text) ==
    LET low == [i \in DOMAIN text |-> lower_char(text[i])]
        IsWord(i) == low[i] \in Range(LowerCase) \cup Digits \cup {"_"}
    IN  {SubSeq(low, i, j) : <<i, j>> \in
            {p \in (DOMAIN text) \X (DOMAIN text) :
                /\ p[1] + 2 <= p[2]
                /\ \A n \in p[1]..p[2] : IsWord(n)
                /\ (p[1] = 1 \/ ~IsWord(p[1] - 1))
                /\ (p[2] = Len(text) \/ ~IsWord(p[2] + 1))}}

C18_Jaccard ==
    ret.op = "calculate_text_similarity" =>
        LET A == C18_Tokens(ret.args[1])
            B == C18_Tokens(ret.args[2])
        IN  /\ ret.err = "none"
            /\ ret.val.den > 0
            /\ (A = {} \/ B = {}) => ret.val.num = 0
            /\ (A # {} /\ B # {}) =>
                   ret.val.num * Cardinality(A \cup B) = Cardinality(A \cap B) * ret.val.den
            /\ 0 <= ret.val.num /\ ret.val.num <= ret.val.den
            /\ ret.val = calculate_text_similarity(ret.args[2], ret.args[1])
            /\ (A = B /\ A # {}) => (ret.val.num = 1 /\ ret.val.den = 1)

\* "Access Control Policy" against itself
C18_Witness ==
    /\ ret.op = "calculate_text_similarity"
    /\ ret.args[1] = Chars("Access Control Policy")
    /\ ret.args[2] = Chars("Access Control Policy")
    /\ C18_Tokens(ret.args[1]) =
           {<<"a", "c", "c", "e", "s", "s">>, <<"c", "o", "n", "t", "r", "o", "l">>,
            <<"p", "o", "l", "i", "c", "y">>}
    /\ ret.val = [num |-> 1, den |-> 1]

(***************************************************************************)
(* C15.  find_similar_controls(control_id, framework_id, threshold)        *)
(* returns an empty list and raises no error when framework_id is not      *)
(* registered or control_id is not a control of that framework.            *)
(***************************************************************************)
C15_NotFound ==
    \/ ret.args[2] \notin Registered
    \/ \A k \in DOMAIN frameworks :
          frameworks[k].k = ret.args[2] =>
              ret.args[1] \notin Range(DictKeys(frameworks[k].v.controls))

C15_EmptyWhenNotFound ==
    (ret.op = "find_similar_controls" /\ C15_NotFound) =>
        (ret.err = "none" /\ ret.val = <<>>)

\* "c3" is asked for in framework "A", which has controls but not this one, while
\* the registered framework "C" has it
C15_Witness ==
    /\ ret.op = "find_similar_controls"
    /\ ret.args = <<"c3", "A", 0>>
    /\ DictHas(frameworks, "A") /\ DictGet(frameworks, "A") = FwA
    /\ DictHas(frameworks, "C")
    /\ ret.err = "none"
    /\ ret.val = <<>>

(***************************************************************************)
(* C16.  Every entry returned by find_similar_controls has a similarity    *)
(* greater than or equal to the threshold, and the entries are ordered by  *)
(* non-increasing similarity.                                              *)
(***************************************************************************)
C16_AtLeast(a, b) == a.num * b.den >= b.num * a.den

C16_ThresholdAndOrder ==
    (ret.op = "find_similar_controls" /\ ret.err = "none") =>
        /\ \A n \in DOMAIN ret.val :
              C16_AtLeast(ret.val[n].similarity, [num |-> ret.args[3], den |-> 10])
        /\ \A n \in DOMAIN ret.val, m \in DOMAIN ret.val :
              n < m => C16_AtLeast(ret.val[n].similarity, ret.val[m].similarity)

\* at threshold 0.5 the search from control c1 of "A" returns c3 of "C", found
\* first with similarity 1/2, behind c1 of "B", found last with similarity 1
C16_Witness ==
    /\ ret.op = "find_similar_controls"
    /\ ret.args = <<"c1", "A", 5>>
    /\ Len(ret.val) = 2
    /\ ret.val[1].similarity = [num |-> 1, den |-> 1]
    /\ ret.val[1].suggested_mapping_type = "equivalent"
    /\ ret.val[2].similarity = [num |-> 1, den |-> 2]
    /\ ret.val[2].framework_id = "C"
    /\ DictKeys(frameworks) = <<"C", "A", "B">>

(***************************************************************************)
(* C17.  Two entries of equal similarity in the result of                  *)
(* find_similar_controls are in discovery order: the entry whose framework *)
(* was registered earlier comes first, and within one framework the entry  *)
(* whose control was added earlier comes first.                            *)
(***************************************************************************)
\* the position of a key in a dict
C17_KeyIndex(d, key) == CHOOSE n \in DOMAIN d : d[n].k = key

C17_DiscoveredBefore(e1, e2) ==
    LET f1 == C17_KeyIndex(frameworks, e1.framework_id)
        f2 == C17_KeyIndex(frameworks, e2.framework_id)
    IN  \/ f1 < f2
        \/ /\ f1 = f2
           /\ C17_KeyIndex(frameworks[f1].v.controls, e1.control_id)
                  < C17_KeyIndex(frameworks[f1].v.controls, e2.control_id)

C17_TiesInDiscoveryOrder ==
    (ret.op = "find_similar_controls" /\ ret.err = "none") =>
        \A n \in DOMAIN ret.val, m \in DOMAIN ret.val :
            (n < m /\ ret.val[n].similarity = ret.val[m].similarity) =>
                C17_DiscoveredBefore(ret.val[n], ret.val[m])

\* from control c3 of "C", with "B" registered before "A": c1 of "B" and c1 of "A"
\* tie at 1/2 and stay in this order, c2 of "A" follows with 0
C17_Witness ==
    /\ ret.op = "find_similar_controls"
    /\ ret.args = <<"c3", "C", 0>>
    /\ DictKeys(frameworks) = <<"B", "C", "A">>
    /\ Len(ret.val) = 3
    /\ ret.val[1].framework_id = "B" /\ ret.val[1].similarity = [num |-> 1, den |-> 2]
    /\ ret.val[2].framework_id = "A" /\ ret.val[2].similarity = [num |-> 1, den |-> 2]
    /\ ret.val[3].control_id = "c2" /\ ret.val[3].similarity = [num |-> 0, den |-> 1]

(***************************************************************************)
(* C19.  register_framework never fails on a duplicate id: after any       *)
(* sequence of register_framework calls, get_framework(id) returns the     *)
(* framework most recently registered under that id, the registry holds    *)
(* one framework per distinct id, and get_framework of an id never         *)
(* registered returns none without error.  Stated step by step: a          *)
(* register_framework call makes its framework the one found under its id  *)
(* and changes what no other id finds, and get_framework returns what the  *)
(* registry holds under the id, none when it holds nothing.                *)
(***************************************************************************)
C19_Step ==
    /\ ret'.op = "register_framework" =>
          /\ ret'.err = "none"
          /\ get_framework(frameworks', ret'.args[1]) = <<ret'.args[2]>>
          /\ \A id \in SeedFrameworkIds \ {ret'.args[1]} :
                get_framework(frameworks', id) = get_framework(frameworks, id)
    /\ ret'.op = "get_framework" =>
          /\ ret'.err = "none"
          /\ frameworks' = frameworks
          /\ (ret'.args[1] \notin Registered) => ret'.val = <<>>
          /\ \A k \in DOMAIN frameworks :
                frameworks[k].k = ret'.args[1] => ret'.val = <<frameworks[k].v>>
    /\ \A n \in DOMAIN frameworks', m \in DOMAIN frameworks' :
          frameworks'[n].k = frameworks'[m].k => n = m
    /\ \A n \in DOMAIN frameworks' : frameworks'[n].k = frameworks'[n].v.id

C19_LastWriteWins == [][C19_Step]_vars

\* the draft of "A" was registered after "B", under an id registered before "B":
\* it is the framework found under "A", and "C" finds nothing
C19_Witness ==
    /\ ret.op = "register_framework"
    /\ ret.args[2] = FwA0
    /\ DictKeys(frameworks) = <<"A", "B">>
    /\ get_framework(frameworks, "A") = <<FwA0>>
    /\ get_framework(frameworks, "C") = <<>>

(***************************************************************************)
(* C20.  As claimed: get_all_frameworks returns the registered frameworks  *)
(* in registration order, also when an already-registered id is            *)
(* registered again: the framework registered last is then the last of     *)
(* the list.                                                               *)
(***************************************************************************)
C20_Original_RegistrationOrder ==
    ret.op = "register_framework" =>
        get_all_frameworks(frameworks)[Len(frameworks)] = ret.args[2]

(***************************************************************************)
(* C20, amended.  get_all_frameworks returns the frameworks in the order   *)
(* in which their ids were first registered: registering a new id adds     *)
(* the framework at the end, registering an id again replaces the          *)
(* framework at the position the id already has, and get_all_frameworks    *)
(* returns the frameworks held, in this order.                             *)
(***************************************************************************)
C20_Step ==
    /\ ret'.op = "register_framework" =>
          IF ret'.args[1] \in Registered
          THEN /\ DictKeys(frameworks') = DictKeys(frameworks)
               /\ \A n \in DOMAIN frameworks :
                     get_all_frameworks(frameworks')[n] =
                         IF frameworks[n].k = ret'.args[1] THEN ret'.args[2]
                         ELSE get_all_frameworks(frameworks)[n]
          ELSE get_all_frameworks(frameworks') =
                   Append(get_all_frameworks(frameworks), ret'.args[2])
    /\ ret'.op = "get_all_frameworks" =>
          /\ ret'.err = "none"
          /\ frameworks' = frameworks
          /\ Len(ret'.val) = Len(frameworks)
          /\ \A n \in DOMAIN frameworks : ret'.val[n] = frameworks[n].v

C20_FirstRegistrationOrder == [][C20_Step]_vars

\* "A" was registered again after "C" and is still the first of the list
C20_Witness ==
    /\ ret.op = "register_framework"
    /\ ret.args[2] = FwA
    /\ get_all_frameworks(frameworks) = <<FwA, FwC>>

(***************************************************************************)
(* C21.  Dual-registration invariant: after any sequence of add_domain and *)
(* add_control calls on a framework F, every control of F whose domain_id  *)
(* is the id of an existing domain of F is also in that domain's control   *)
(* set.                                                                    *)
(***************************************************************************)
C21_DualRegistration ==
    \A f \in DOMAIN frameworks :
        LET F == frameworks[f].v
        IN  \A c \in DOMAIN F.controls :
                LET control == F.controls[c].v
                IN  (control.domain_id # <<>> /\ DictHas(F.domains, control.domain_id[1])) =>
                        DictHas(DictGet(F.domains, control.domain_id[1]).controls, control.id)

(***************************************************************************)
(* C22.  The global mapping list is append-only: no engine operation       *)
(* removes or reorders a mapping, so the list of an earlier state is a     *)
(* prefix of the list of every later state (the verified flag apart), and  *)
(* a mapping once marked verified stays verified.  Stated for one step;    *)
(* it then holds between any two states of a behaviour.                    *)
(***************************************************************************)
C22_Step ==
    /\ Len(mappings') >= Len(mappings)
    /\ \A i \in DOMAIN mappings :
          /\ [mappings'[i] EXCEPT !.verified = FALSE] = [mappings[i] EXCEPT !.verified = FALSE]
          /\ mappings[i].verified => mappings'[i].verified

C22_AppendOnly == [][C22_Step]_vars

\* an import failed on its second mapping after appending its first, behind a
\* mapping that add_mapping had stored and verify had marked
C22_Witness ==
    /\ ret.op = "import_mappings"
    /\ ret.err = "ValidationError"
    /\ Len(mappings) = 2
    /\ mappings[1].verified /\ mappings[1].mapping_type = "related"
    /\ mappings[2].verified /\ mappings[2].mapping_type = "equivalent"

(***************************************************************************)
(* C23.  Round trip: for any engine state, import_mappings on a fresh      *)
(* engine with the result of export_mappings succeeds and leaves the       *)
(* fresh engine with the same set of framework ids and the same number of  *)
(* mappings, whichever pydantic is installed.                              *)
(***************************************************************************)
C23_RoundTrip ==
    ret.op = "export_mappings" =>
        \A pydantic_v1 \in BOOLEAN :
            LET fresh == import_mappings(<<>>, <<>>, ret.val, pydantic_v1)
            IN  /\ fresh.err = "none"
                /\ Range(DictKeys(fresh.frameworks)) = Registered
                /\ Len(fresh.mappings) = Len(mappings)

(***************************************************************************)
(* C27.  In generate_report, for every ordered pair (i, j) of distinct     *)
(* framework ids, gaps[i][j] is exactly the sub-list of the source gaps of *)
(* analyze_gaps(i,j) whose risk_level is high or critical, in the same     *)
(* order, and coverage[i][j] reports the mapped_controls of                *)
(* analyze_gaps(i,j) and its total_source_controls as total_controls.      *)
(***************************************************************************)
\* the ids the last generate_report call worked on
C27_Ids == IF ret.args[1] \/ ret.args[2] = <<>> THEN DictKeys(frameworks) ELSE ret.args[2]

\* sub is the sub-list of full made of its entries of high or critical risk
C27_SignificantSublist(sub, full) ==
    LET kept == {n \in DOMAIN full : full[n].risk_level \in {"high", "critical"}}
    IN  /\ Len(sub) = Cardinality(kept)
        /\ \A n \in kept : sub[Cardinality({m \in kept : m <= n})] = full[n]

C27_ReportTables ==
    (ret.op = "generate_report" /\ ret.err = "none") =>
        \A i \in Range(C27_Ids), j \in Range(C27_Ids) :
            i # j =>
                LET analysis == analyze_gaps(frameworks, mappings, i, j)
                    cell == DictGet(DictGet(ret.val.coverage, i), j)
                IN  /\ C27_SignificantSublist(DictGet(DictGet(ret.val.gaps, i), j),
                                               analysis.gaps.source)
                    /\ cell.mapped_controls = analysis.mapped_controls
                    /\ cell.total_controls = analysis.total_source_controls

\* the ids of the controls of a list of gaps, in the order of the list
C27_ControlIds(gap_list) == [n \in DOMAIN gap_list |-> gap_list[n].id]

\* the constructed facade, with control c1 of A mapped to B a second time and the
\* controls x4, of low risk, and x1, of high risk, added to A in this order.  From A
\* to B two mappings on four controls, and of the gaps c2, x4, x1 only x1 is kept;
\* from A to C the gaps are c1, x4, x1, of which c1 and x1 are kept in this order;
\* from C to B the gap c4 of critical risk is kept
C27_Witness ==
    /\ ret.op = "generate_report"
    /\ ret.err = "none"
    /\ ret.args[2] = <<"C", "B", "A">>
    /\ Len(mappings) = Len(BasicMappings) + 1
    /\ C27_ControlIds(analyze_gaps(frameworks, mappings, "A", "C").gaps.source) =
           <<"c1", "x4", "x1">>
    /\ C27_ControlIds(DictGet(DictGet(ret.val.gaps, "A"), "C")) = <<"c1", "x1">>
    /\ C27_ControlIds(analyze_gaps(frameworks, mappings, "A", "B").gaps.source) =
           <<"c2", "x4", "x1">>
    /\ C27_ControlIds(DictGet(DictGet(ret.val.gaps, "A"), "B")) = <<"x1">>
    /\ DictGet(DictGet(ret.val.coverage, "A"), "B") =
           [percentage |-> [num |-> 50, den |-> 1], mapped_controls |-> 2, total_controls |-> 4]
    /\ Len(DictGet(DictGet(ret.val.gaps, "C"), "B")) = 1
    /\ DictGet(DictGet(ret.val.gaps, "C"), "B")[1].id = "c4"

(***************************************************************************)
(* C24.  The queries find_mappings_for_control,                            *)
(* find_mappings_between_frameworks, analyze_gaps,                         *)
(* generate_compliance_matrix, find_similar_controls, export_mappings and  *)
(* generate_report are pure: each leaves the framework registry, the       *)
(* global mapping list with its verified flags and every per-control       *)
(* mapping index unchanged, whether it returns a result or fails.          *)
(***************************************************************************)
C24_Queries ==
    {"find_mappings_for_control", "find_mappings_between_frameworks", "analyze_gaps",
     "generate_compliance_matrix", "find_similar_controls", "export_mappings",
     "generate_report"}

C24_Step ==
    ret'.op \in C24_Queries =>
        /\ DictKeys(frameworks') = DictKeys(frameworks)
        /\ \A f \in DOMAIN frameworks :
              /\ DictKeys(frameworks'[f].v.controls) = DictKeys(frameworks[f].v.controls)
              /\ \A c \in DOMAIN frameworks[f].v.controls :
                    frameworks'[f].v.controls[c].v.mappings =
                        frameworks[f].v.controls[c].v.mappings
        /\ frameworks' = frameworks
        /\ Len(mappings') = Len(mappings)
        /\ \A i \in DOMAIN mappings :
              mappings'[i].verified = mappings[i].verified /\ mappings'[i] = mappings[i]

C24_QueriesPure == [][C24_Step]_vars

\* a report failed on an unregistered id in an engine that holds mappings, per-control
\* indexes, a mapping verified at start-up and one verified later
C24_Witness ==
    /\ ret.op = "generate_report"
    /\ ret.err = "ValueError"
    /\ Len(mappings) = 3
    /\ mappings[1].verified /\ mappings[3].verified /\ ~mappings[2].verified
    /\ IndexOf(frameworks, "C", "c3", "B") # <<>>

(***************************************************************************)
(* C25.  Gap analyses are not cached.  After a successful add_mapping      *)
(* whose frameworks are (A,B) or (B,A), both registered, analyze_gaps(A,B) *)
(* and analyze_gaps(B,A) each report mapped_controls one greater than      *)
(* before the call, and the control the new mapping names on a side is no  *)
(* longer in the unmapped list of that side.                               *)
(***************************************************************************)
\* The ids of the controls a gap list names
C25_Ids(gap_list) == {gap_list[i].id : i \in DOMAIN gap_list}

\* The analysis of (X, Y) after the call against the one before it, m being the new mapping
C25_Recomputed(m, X, Y) ==
    LET old == analyze_gaps(frameworks, mappings, X, Y)
        new == analyze_gaps(frameworks', mappings', X, Y)
        on_source == IF m.source_framework = X THEN m.source_control ELSE m.target_control
        on_target == IF m.source_framework = X THEN m.target_control ELSE m.source_control
    IN  /\ new.mapped_controls = old.mapped_controls + 1
        /\ on_source \notin C25_Ids(new.unmapped_source_controls)
        /\ on_target \notin C25_Ids(new.unmapped_target_controls)

C25_Step ==
    (/\ ret'.op = "add_mapping"
     /\ ret'.err = "none"
     /\ Len(mappings') = Len(mappings) + 1
     /\ ret'.val.source_framework \in Registered
     /\ ret'.val.target_framework \in Registered)
    => /\ C25_Recomputed(ret'.val, ret'.val.source_framework, ret'.val.target_framework)
       /\ C25_Recomputed(ret'.val, ret'.val.target_framework, ret'.val.source_framework)

C25_NotCached == [][C25_Step]_vars

\* A second mapping between A and B has been added in the other direction, naming a
\* control that the analysis listed as unmapped before: the analysis counts two.
C25_Witness ==
    /\ AddReturned
    /\ {"A", "B"} \subseteq Registered
    /\ Len(mappings) = 2
    /\ ret.val = mappings[2]
    /\ mappings[1].source_framework = "A" /\ mappings[1].target_framework = "B"
    /\ mappings[2].source_framework = "B" /\ mappings[2].target_framework = "A"
    /\ mappings[2].target_control # mappings[1].source_control
    /\ Resolves(frameworks, "A", mappings[2].target_control)
    /\ analyze_gaps(frameworks, mappings, "A", "B").mapped_controls = 2
    /\ mappings[2].target_control
         \notin C25_Ids(analyze_gaps(frameworks, mappings, "A", "B").unmapped_source_controls)

(***************************************************************************)
(* C26.  find_similar_controls on a resolved control returns exactly one   *)
(* entry for every control of every registered framework other than        *)
(* framework_id whose similarity to the source control is at least the     *)
(* threshold, and no entry of framework_id itself; the suggested mapping   *)
(* type of an entry is "equivalent" exactly when its similarity is greater *)
(* than 0.9, and "related" otherwise.                                      *)
(***************************************************************************)
\* The call named a registered framework and a control of it
C26_Resolved ==
    /\ ret.op = "find_similar_controls"
    /\ ret.err = "none"
    /\ ret.args[2] \in Registered
    /\ DictHas(DictGet(frameworks, ret.args[2]).controls, ret.args[1])

\* The controls of the registered frameworks other than framework_id
C26_Others ==
    UNION {{[framework_id |-> frameworks[k].k, control |-> frameworks[k].v.controls[j].v] :
               j \in DOMAIN frameworks[k].v.controls} :
           k \in {n \in DOMAIN frameworks : frameworks[n].k # ret.args[2]}}

\* The similarity of a control to the source control of the call
C26_Similarity(control) ==
    calculate_text_similarity(
        control_text(DictGet(DictGet(frameworks, ret.args[2]).controls, ret.args[1])),
        control_text(control))

\* The controls the call has to return
C26_Qualifying ==
    {p \in C26_Others :
        C26_Similarity(p.control).num * 10 >= ret.args[3] * C26_Similarity(p.control).den}

\* The positions of the result that hold the entry of p
C26_EntriesOf(p) ==
    {n \in DOMAIN ret.val : /\ ret.val[n].framework_id = p.framework_id
                            /\ ret.val[n].control_id = p.control.id}

C26_ExactlyTheSimilar ==
    C26_Resolved =>
        /\ Len(ret.val) = Cardinality(C26_Qualifying)
        /\ \A p \in C26_Qualifying :
              /\ Cardinality(C26_EntriesOf(p)) = 1
              /\ \A n \in C26_EntriesOf(p) : ret.val[n].similarity = C26_Similarity(p.control)
        /\ \A n \in DOMAIN ret.val :
              /\ ret.val[n].framework_id # ret.args[2]
              /\ ret.val[n].suggested_mapping_type \in {"equivalent", "related"}
              /\ ret.val[n].suggested_mapping_type = "equivalent"
                    <=> ret.val[n].similarity.num * 10 > 9 * ret.val[n].similarity.den

\* at threshold 0 the search from c1 of "A", all three frameworks being registered and
\* "A" holding two controls, returns the three controls of "B" and "C" and none of "A":
\* one of them is equivalent (similarity 1), the others are related
C26_Witness ==
    /\ C26_Resolved
    /\ ret.args = <<"c1", "A", 0>>
    /\ Registered = {"A", "B", "C"}
    /\ Len(DictGet(frameworks, "A").controls) = 2
    /\ Len(ret.val) = 3
    /\ Cardinality({n \in DOMAIN ret.val : ret.val[n].suggested_mapping_type = "equivalent"}) = 1
    /\ \E n \in DOMAIN ret.val :
          /\ ret.val[n].suggested_mapping_type = "related"
          /\ ret.val[n].similarity.num > 0

(***************************************************************************)
(* C28.  A failed add_mapping changes nothing: when add_mapping is         *)
(* rejected because the confidence is outside [0,1], the global mapping    *)
(* list, every per-control mapping index and the framework registry are    *)
(* the same after the call as before it.                                   *)
(***************************************************************************)
C28_Step ==
    (ret'.op = "add_mapping" /\ ret'.err = "ValidationError") =>
        /\ mappings' = mappings
        /\ frameworks' = frameworks
        /\ \A p \in RegisteredControls, g \in FrameworkIds :
              IndexOf(frameworks', p[1], p[2], g) = IndexOf(frameworks, p[1], p[2], g)

C28_FailedAddChangesNothing == [][C28_Step]_vars

\* add_mapping has been rejected for its confidence while the engine holds a mapping
\* between two resolved controls, each with an entry in its index
C28_Witness ==
    /\ ret.op = "add_mapping"
    /\ ret.err = "ValidationError"
    /\ ~ControlMappingValid(ret.args[6])
    /\ Len(mappings) = 1
    /\ Resolves(frameworks, "A", "c1") /\ Resolves(frameworks, "B", "c1")
    /\ Len(IndexOf(frameworks, "A", "c1", "B")) = 1
    /\ Len(IndexOf(frameworks, "B", "c1", "A")) = 1

(***************************************************************************)
(* C29.  In every reachable state and for every pair of registered         *)
(* frameworks A and B, the number of covered source controls never exceeds *)
(* the mapping count of analyze_gaps(A,B):                                 *)
(* total_source_controls - len(unmapped_source_controls) <= mapped_controls*)
(* and likewise total_target_controls - len(unmapped_target_controls)      *)
(* <= mapped_controls.                                                     *)
(***************************************************************************)
C29_CoveredSource(g) == g.total_source_controls - Len(g.unmapped_source_controls)

C29_CoveredTarget(g) == g.total_target_controls - Len(g.unmapped_target_controls)

C29_CoveredAtMostMapped ==
    \A A \in Registered, B \in Registered :
        LET g == analyze_gaps(frameworks, mappings, A, B)
        IN  /\ C29_CoveredSource(g) <= g.mapped_controls
            /\ C29_CoveredTarget(g) <= g.mapped_controls

\* two mappings between "A" and "B" name the same control on each side: the analysis
\* counts two mappings and one covered control on each side
C29_Witness ==
    /\ {"A", "B"} \subseteq Registered
    /\ analyze_gaps(frameworks, mappings, "A", "B").mapped_controls = 2
    /\ C29_CoveredSource(analyze_gaps(frameworks, mappings, "A", "B")) = 1
    /\ C29_CoveredTarget(analyze_gaps(frameworks, mappings, "A", "B")) = 1
    /\ analyze_gaps(frameworks, mappings, "A", "B").total_source_controls = 2

(***************************************************************************)
(* C30.  Gap analysis mirrors under swapping its arguments: for            *)
(* registered, distinct frameworks A and B in any reachable state,         *)
(* analyze_gaps(A,B) and analyze_gaps(B,A) have the same mapped_controls,  *)
(* the unmapped source controls of one are the unmapped target controls of *)
(* the other, and total_source_controls of one equals                      *)
(* total_target_controls of the other.                                     *)
(***************************************************************************)
C30_Mirror(g, h) ==
    /\ g.mapped_controls = h.mapped_controls
    /\ g.unmapped_source_controls = h.unmapped_target_controls
    /\ g.unmapped_target_controls = h.unmapped_source_controls
    /\ g.total_source_controls = h.total_target_controls
    /\ g.total_target_controls = h.total_source_controls

C30_MirrorUnderSwap ==
    \A A \in Registered, B \in Registered :
        A # B => C30_Mirror(analyze_gaps(frameworks, mappings, A, B),
                            analyze_gaps(frameworks, mappings, B, A))

\* "A" and "B" hold different numbers of controls, a mapping is stored from "B" to "A"
\* on control c2 of "A", which "B" does not have, and c1 of "A" is left unmapped: the
\* analysis of (A,B) lists c1 as source gap, the analysis of (B,A) as target gap
C30_Witness ==
    /\ {"A", "B"} \subseteq Registered
    /\ \E i \in DOMAIN mappings :
          /\ mappings[i].source_framework = "B"
          /\ mappings[i].target_framework = "A"
          /\ mappings[i].target_control = "c2"
          /\ mappings[i].source_control = "c1"
    /\ analyze_gaps(frameworks, mappings, "A", "B").total_source_controls = 2
    /\ analyze_gaps(frameworks, mappings, "A", "B").total_target_controls = 1
    /\ analyze_gaps(frameworks, mappings, "A", "B").mapped_controls = 1
    /\ Len(analyze_gaps(frameworks, mappings, "A", "B").unmapped_source_controls) = 1
    /\ analyze_gaps(frameworks, mappings, "B", "A").unmapped_target_controls[1].id = "c1"
    /\ analyze_gaps(frameworks, mappings, "B", "A").unmapped_source_controls = <<>>

====
